---- MODULE Spec2Model ----
(***************************************************************************)
(* Sugarland: liquidation inventory management (Tauri application).        *)
(*                                                                         *)
(* The module models the pricing engine (pricing.rs), the entity           *)
(* extractor (nlp.rs) and the import of a manifest under the database      *)
(* mutex (main.rs, auctions.rs).                                           *)
(*                                                                         *)
(* Representation.  A Rust String is a sequence of one-character strings.  *)
(* A currency amount (f64, dollars) is an integer number of cents; a       *)
(* vendor coefficient or margin (f64 fraction) is an integer number of     *)
(* hundredths.  Products are therefore exact: the binary rounding error of *)
(* f64 arithmetic is not modelled (see RoundDiv).                          *)
(***************************************************************************)
EXTENDS Integers, Sequences, FiniteSets, TLC

VARIABLES
  vendors,      \* PricingEngine.vendors: the snapshot held by the engine
  call,         \* harness: the arguments (retail_price, source) of the call
  result,       \* harness: << >>, or the tuple returned by calculate_cost
  dbVendors,    \* the rows of the vendors table, in rowid order
  dbLock,       \* AppState.db (Mutex<Database>): "free" or the command holding it
  manifests,    \* the rows of the manifests table, in insertion order
  items,        \* the rows of the inventory_items table, in insertion order
  rows,         \* import_manifest: the parsed CSV rows not yet processed
  waiting,      \* update_vendor commands blocked on state.db.lock()
  title,        \* harness: the raw title last given to extract
  entities,     \* harness: the ExtractedEntities returned for it
  auctions,     \* the rows of the auctions table, in insertion order
  auction_results, \* the rows of the auction_results table, in insertion order
  settings      \* the settings table: the value stored under each key

vars ==
  <<vendors, call, result, dbVendors, dbLock, manifests, items, rows, waiting,
    title, entities, auctions, auction_results, settings>>

pricingVars == <<vendors, call, result>>
importVars == <<dbVendors, dbLock, manifests, items, rows, waiting>>
nlpVars == <<title, entities>>
auctionVars == <<auctions, auction_results, settings>>

\* The settings seeded by the migrations that the reconciliation reads.
SeededSettings ==
  [ron_larsson_bidder_id |-> <<"5", "0", "4", "6">>, default_commission_rate |-> <<"0", ".", "1", "5">>]

----------------------------------------------------------------------------
(* Strings                                                                 *)

UpperLetters ==
  <<"A","B","C","D","E","F","G","H","I","J","K","L","M",
    "N","O","P","Q","R","S","T","U","V","W","X","Y","Z">>

LowerLetters ==
  <<"a","b","c","d","e","f","g","h","i","j","k","l","m",
    "n","o","p","q","r","s","t","u","v","w","x","y","z">>

Digits == {"0","1","2","3","4","5","6","7","8","9"}

Range(s) == {s[i] : i \in DOMAIN s}

\* char::to_lowercase on the ASCII range
to_lowercase_char(c) ==
  IF \E i \in DOMAIN UpperLetters : UpperLetters[i] = c
  THEN LowerLetters[CHOOSE i \in DOMAIN UpperLetters : UpperLetters[i] = c]
  ELSE c

\* str::to_lowercase
to_lowercase(s) == [i \in DOMAIN s |-> to_lowercase_char(s[i])]

\* str::contains(&str): the pattern occurs as a contiguous substring
\* str::to_uppercase on the ASCII range
to_uppercase_char(c) ==
  IF \E i \in DOMAIN LowerLetters : LowerLetters[i] = c
  THEN UpperLetters[CHOOSE i \in DOMAIN LowerLetters : LowerLetters[i] = c]
  ELSE c
to_uppercase(s) == [i \in DOMAIN s |-> to_uppercase_char(s[i])]

contains(s, pat) ==
  \E i \in 0..(Len(s) - Len(pat)) : SubSeq(s, i + 1, i + Len(pat)) = pat

----------------------------------------------------------------------------
(* Pricing engine (pricing.rs)                                             *)

\* Denominator of cost_coefficient and min_price_margin: 14 stands for 0.14.
Hundred == 100

\* f64::round applied to the rational n/d (d > 0): nearest integer, halves
\* away from zero.
RoundDiv(n, d) ==
  IF n >= 0 THEN (2 * n + d) \div (2 * d)
            ELSE -((2 * (-n) + d) \div (2 * d))

Vendor(id, name, cost_coefficient, min_price_margin) ==
  [id |-> id, name |-> name, cost_coefficient |-> cost_coefficient,
   min_price_margin |-> min_price_margin, is_active |-> TRUE]

AmazonBstock == <<"A", "m", "a", "z", "o", "n", " ", "B", "s", "t", "o", "c", "k">>
Unknown == <<"U", "n", "k", "n", "o", "w", "n">>

\* The closure of the first find: the lower-cased source contains the
\* lower-cased vendor name.
SourceMatches(source, v) ==
  contains(to_lowercase(source), to_lowercase(v.name))

\* Position (from 0) of the first occurrence of a vendor's name in the source.
OccursAt(source, v) ==
  LET s == to_lowercase(source)
      p == to_lowercase(v.name)
  IN  CHOOSE i \in 0..(Len(s) - Len(p)) :
        /\ SubSeq(s, i + 1, i + Len(p)) = p
        /\ \A j \in 0..(i - 1) : SubSeq(s, j + 1, j + Len(p)) # p

\* Mutant of FirstMatch: the vendor whose name stands first in the source wins.
FirstMatchByPosition(vs, source) ==
  IF \E i \in DOMAIN vs : SourceMatches(source, vs[i])
  THEN CHOOSE i \in DOMAIN vs :
         /\ SourceMatches(source, vs[i])
         /\ \A j \in DOMAIN vs : SourceMatches(source, vs[j]) =>
              \/ OccursAt(source, vs[i]) < OccursAt(source, vs[j])
              \/ OccursAt(source, vs[i]) = OccursAt(source, vs[j]) /\ i <= j
  ELSE 0

\* self.vendors.iter().find(|v| source.to_lowercase().contains(&v.name.to_lowercase())):
\* index of the first vendor, in snapshot order, that matches; 0 for None.
FirstMatch(vs, source) ==
  IF \E i \in DOMAIN vs : SourceMatches(source, vs[i])
  THEN CHOOSE i \in DOMAIN vs :
         /\ SourceMatches(source, vs[i])
         /\ \A j \in 1..(i - 1) : ~SourceMatches(source, vs[j])
  ELSE 0

\* Mutant of Fallback: the default is the first vendor of the snapshot.
FallbackFirstVendor(vs) == IF vs # << >> THEN 1 ELSE 0

\* self.vendors.iter().find(|v| v.name == "Amazon Bstock"); 0 for None.
Fallback(vs) ==
  IF \E i \in DOMAIN vs : vs[i].name = AmazonBstock
  THEN CHOOSE i \in DOMAIN vs :
         /\ vs[i].name = AmazonBstock
         /\ \A j \in 1..(i - 1) : vs[j].name # AmazonBstock
  ELSE 0

\* find(..).or_else(|| ..)
ResolveVendor(vs, source) ==
  IF FirstMatch(vs, source) # 0 THEN FirstMatch(vs, source) ELSE Fallback(vs)

\* Mutant of CostOf: the cents are truncated instead of rounded.
CostOfTruncated(retail_price, v) ==
  (retail_price * v.cost_coefficient) \div Hundred

\* cost = (retail_price * v.cost_coefficient * 100.0).round() / 100.0
CostOf(retail_price, v) ==
  RoundDiv(retail_price * v.cost_coefficient, Hundred)

\* Mutant of MinPriceOf: the minimum is taken from the unrounded cost.
MinPriceOfUnroundedCost(cost, retail_price, v) ==
  RoundDiv(retail_price * v.cost_coefficient + retail_price * v.min_price_margin,
           Hundred)

\* Mutant of MinPriceOf: the margin term alone, the cost is not added.
MinPriceOfMarginAlone(cost, retail_price, v) ==
  RoundDiv(retail_price * v.min_price_margin, Hundred)

\* min_price = ((cost + retail_price * v.min_price_margin) * 100.0).round() / 100.0
MinPriceOf(cost, retail_price, v) ==
  RoundDiv(cost * Hundred + retail_price * v.min_price_margin, Hundred)

\* Mutant of calculate_cost: the None arm reports the default vendor's name.
calculate_cost_default_name(vs, retail_price, source) ==
  LET i == ResolveVendor(vs, source)
  IN  IF i # 0
      THEN LET cost == CostOf(retail_price, vs[i])
           IN  [cost |-> cost,
                min_price |-> MinPriceOf(cost, retail_price, vs[i]),
                vendor |-> vs[i].name]
      ELSE [cost |-> 0, min_price |-> 0, vendor |-> AmazonBstock]

calculate_cost(vs, retail_price, source) ==
  LET i == ResolveVendor(vs, source)
  IN  IF i # 0
      THEN LET cost == CostOf(retail_price, vs[i])
           IN  [cost |-> cost,
                min_price |-> MinPriceOf(cost, retail_price, vs[i]),
                vendor |-> vs[i].name]
      ELSE [cost |-> 0, min_price |-> 0, vendor |-> Unknown]

\* The vendors seeded by Database::seed_vendors, in insertion order.
SeededVendors ==
  << Vendor("bestbuy", <<"B", "e", "s", "t", " ", "B", "u", "y">>, 14, 10),
     Vendor("wayfair", <<"W", "a", "y", "f", "a", "i", "r">>, 7, 10),
     Vendor("mech", <<"M", "e", "c", "h", "/", "P", "D", "X", "7">>, 20, 10),
     Vendor("amazon", AmazonBstock, 20, 10) >>

----------------------------------------------------------------------------
(* Harness of the pricing engine: an engine is built over a vendor list    *)
(* (as the unit tests of pricing.rs build it) and calculate_cost is called.*)

MaxVendors == 2
MaxCents == 40

\* Vendor rows a snapshot may hold: the seeded rows, the 'bestbuy' row after
\* update_vendor(0.14, -0.10) (the table puts no constraint on
\* min_price_margin), the 'wayfair' row after update_vendor(0.99, 0.0), and a
\* row named like the sentinel.
VendorPool ==
  Range(SeededVendors) \cup
  { Vendor("bestbuy", <<"B", "e", "s", "t", " ", "B", "u", "y">>, 14, -10),
    Vendor("wayfair", <<"W", "a", "y", "f", "a", "i", "r">>, 99, 0),
    Vendor("unknown", Unknown, 14, 10) }

\* Vec<Vendor> of at most MaxVendors rows; vendors.name is UNIQUE.
Snapshots ==
  { s \in UNION { [1..n -> VendorPool] : n \in 0..MaxVendors } :
      \A i, j \in DOMAIN s : i # j => s[i].name # s[j].name }

\* retail_price in cents: every small amount, the amounts of the unit tests
\* (3199.00, 1000.00, 500.00) and a negative one (clean_price parses "-0.35").
RetailPrices == (0..MaxCents) \cup {319900, 100000, 50000, -35}

SourceLabels ==
  { <<"B", "e", "s", "t", " ", "B", "u", "y">>, <<"W", "A", "Y", "F", "A", "I", "R", " ", "v", "i", "a", " ", "b", "e", "s", "t", " ", "b", "u", "y">>, <<"U", "n", "k", "n", "o", "w", "n", " ", "V", "e", "n", "d", "o", "r">>,
    <<"U", "n", "k", "n", "o", "w", "n">>, <<"a", "m", "a", "z", "o", "n", " ", "b", "s", "t", "o", "c", "k">>, << >> }

InitPricing ==
  /\ auctions = << >>
  /\ auction_results = << >>
  /\ settings = SeededSettings
  /\ vendors \in Snapshots
  /\ call \in [retail_price : RetailPrices, source : SourceLabels]
  /\ result = << >>
  /\ dbVendors = SeededVendors
  /\ dbLock = "free"
  /\ manifests = << >>
  /\ items = << >>
  /\ rows = << >>
  /\ waiting = {}
  /\ title = << >>
  /\ entities = << >>

\* engine.calculate_cost(retail_price, source): &self, the snapshot is only read
CalculateCost ==
  /\ result = << >>
  /\ result' = << calculate_cost(vendors, call.retail_price, call.source) >>
  /\ UNCHANGED <<auctionVars, vendors, call, importVars, nlpVars>>

NextPricing == CalculateCost

SpecPricing == InitPricing /\ [][NextPricing]_vars

----------------------------------------------------------------------------
(* Properties of calculate_cost (checked under SpecPricing)                *)

Abs(n) == IF n >= 0 THEN n ELSE -n

\* q is the rational n/d (d > 0) rounded to the nearest integer, halves away
\* from zero.
IsRound(q, n, d) ==
  /\ 2 * Abs(n - q * d) <= d
  /\ 2 * Abs(n - q * d) = d => Abs(q * d) > Abs(n)

\* round2 of the amount n/d cents.
Round2(n, d) ==
  CHOOSE q \in ((n \div d) - 1)..((n \div d) + 1) : IsRound(q, n, d)

Called == result # << >>
Returned == result[1]

\* The vendors of the snapshot whose name occurs in the source label.
Matching == { i \in DOMAIN vendors :
                contains(to_lowercase(call.source), to_lowercase(vendors[i].name)) }
HasFallback == \E i \in DOMAIN vendors : vendors[i].name = AmazonBstock
Resolved == Matching # {} \/ HasFallback
\* The vendor the call resolved to (names are unique in a snapshot).
ResolvedVendor == vendors[ResolveVendor(vendors, call.source)]

Sentinel == [cost |-> 0, min_price |-> 0, vendor |-> Unknown]

C2_CostRounded ==
  (Called /\ Resolved /\ call.retail_price >= 0) =>
    IsRound(Returned.cost,
            call.retail_price * ResolvedVendor.cost_coefficient, Hundred)

\* Witness of C2: 3199.00 at 0.14 gives 447.86.
C2_Witness ==
  /\ Called /\ Resolved
  /\ call.retail_price = 319900
  /\ ResolvedVendor.cost_coefficient = 14
  /\ Returned.cost = 44786

\* C3: the vendor returned is the first vendor, in snapshot order, whose
\* lower-cased name is a substring of the lower-cased source label, wherever
\* the names stand in the label.
C3_FirstInSnapshotWins ==
  (Called /\ Matching # {}) =>
    \E i \in Matching :
      /\ \A j \in Matching : i <= j
      /\ Returned.vendor = vendors[i].name

\* Witness of C3: two vendors match and the winner's name stands later in the
\* label than the other's.
C3_Witness ==
  /\ Called
  /\ \E i, j \in Matching :
       /\ i < j
       /\ OccursAt(call.source, vendors[j]) < OccursAt(call.source, vendors[i])
       /\ Returned.vendor = vendors[i].name

\* C4: when no vendor name occurs in the source label and a vendor named
\* exactly "Amazon Bstock" is in the snapshot, the call returns that vendor's
\* name and the prices of its coefficient and margin; when some vendor
\* matches, a matching vendor is returned, not the fallback.
C4_FallbackAmazonBstock ==
  Called =>
    /\ (Matching = {} /\ HasFallback) =>
         \E i \in DOMAIN vendors :
           /\ vendors[i].name = AmazonBstock
           /\ Returned.vendor = AmazonBstock
           /\ IsRound(Returned.cost,
                      call.retail_price * vendors[i].cost_coefficient, Hundred)
           /\ IsRound(Returned.min_price,
                      Returned.cost * Hundred
                        + call.retail_price * vendors[i].min_price_margin,
                      Hundred)
    /\ Matching # {} =>
         \E i \in Matching : Returned.vendor = vendors[i].name

\* Witness of C4: an unmatched label priced by the fallback, which is not the
\* first vendor of the snapshot.
C4_Witness ==
  /\ Called /\ Matching = {}
  /\ Len(vendors) = 2 /\ vendors[2].name = AmazonBstock
  /\ call.retail_price = 50000
  /\ Returned = [cost |-> 10000, min_price |-> 15000, vendor |-> AmazonBstock]

\* C5 as stated: the call returns (0.0, 0.0, "Unknown") when no vendor
\* matches and there is no "Amazon Bstock" vendor, and in no other case.
C5_SentinelIffUnresolved ==
  Called => (Returned = Sentinel <=> ~Resolved)

\* C5 amended: the call returns (0.0, 0.0, "Unknown") whenever no vendor
\* matches and there is no "Amazon Bstock" vendor, for every retail_price and
\* label; when a vendor is resolved the result carries that vendor's name, so
\* it equals the sentinel only if a vendor of the snapshot is itself named
\* "Unknown".
C5_SentinelWhenUnresolved ==
  Called =>
    /\ ~Resolved => Returned = Sentinel
    /\ (Resolved /\ Returned = Sentinel) =>
         \E i \in DOMAIN vendors : vendors[i].name = Unknown

\* Witness of C5: the empty snapshot, a non-zero price.
C5_Witness ==
  /\ Called /\ vendors = << >>
  /\ call.retail_price = 319900
  /\ Returned = Sentinel

----------------------------------------------------------------------------
(* Entity extractor (nlp.rs)                                               *)

\* const BRANDS, in the order of the source ("Bosch" stands twice).
BRANDS ==
  << <<"S", "a", "m", "s", "u", "n", "g">>,
     <<"L", "G">>,
     <<"S", "o", "n", "y">>,
     <<"P", "a", "n", "a", "s", "o", "n", "i", "c">>,
     <<"S", "h", "a", "r", "p">>,
     <<"T", "o", "s", "h", "i", "b", "a">>,
     <<"G", "E">>,
     <<"G", "e", "n", "e", "r", "a", "l", " ", "E", "l", "e", "c", "t", "r", "i", "c">>,
     <<"W", "h", "i", "r", "l", "p", "o", "o", "l">>,
     <<"K", "i", "t", "c", "h", "e", "n", "A", "i", "d">>,
     <<"F", "r", "i", "g", "i", "d", "a", "i", "r", "e">>,
     <<"E", "l", "e", "c", "t", "r", "o", "l", "u", "x">>,
     <<"B", "o", "s", "c", "h">>,
     <<"M", "i", "e", "l", "e">>,
     <<"M", "a", "y", "t", "a", "g">>,
     <<"A", "m", "a", "n", "a">>,
     <<"J", "e", "n", "n", "-", "A", "i", "r">>,
     <<"T", "h", "e", "r", "m", "a", "d", "o", "r">>,
     <<"D", "a", "c", "o", "r">>,
     <<"V", "i", "k", "i", "n", "g">>,
     <<"W", "o", "l", "f">>,
     <<"S", "u", "b", "-", "Z", "e", "r", "o">>,
     <<"M", "o", "n", "o", "g", "r", "a", "m">>,
     <<"A", "p", "p", "l", "e">>,
     <<"D", "e", "l", "l">>,
     <<"H", "P">>,
     <<"H", "e", "w", "l", "e", "t", "t", " ", "P", "a", "c", "k", "a", "r", "d">>,
     <<"L", "e", "n", "o", "v", "o">>,
     <<"A", "s", "u", "s">>,
     <<"A", "c", "e", "r">>,
     <<"M", "i", "c", "r", "o", "s", "o", "f", "t">>,
     <<"C", "a", "n", "o", "n">>,
     <<"N", "i", "k", "o", "n">>,
     <<"B", "o", "s", "e">>,
     <<"J", "B", "L">>,
     <<"H", "a", "r", "m", "a", "n", " ", "K", "a", "r", "d", "o", "n">>,
     <<"Y", "a", "m", "a", "h", "a">>,
     <<"D", "e", "n", "o", "n">>,
     <<"A", "s", "h", "l", "e", "y">>,
     <<"I", "K", "E", "A">>,
     <<"L", "a", "-", "Z", "-", "B", "o", "y">>,
     <<"E", "t", "h", "a", "n", " ", "A", "l", "l", "e", "n">>,
     <<"P", "o", "t", "t", "e", "r", "y", " ", "B", "a", "r", "n">>,
     <<"W", "e", "s", "t", " ", "E", "l", "m">>,
     <<"C", "r", "a", "t", "e", " ", "a", "n", "d", " ", "B", "a", "r", "r", "e", "l">>,
     <<"D", "e", "W", "a", "l", "t">>,
     <<"M", "i", "l", "w", "a", "u", "k", "e", "e">>,
     <<"M", "a", "k", "i", "t", "a">>,
     <<"B", "o", "s", "c", "h">>,
     <<"R", "y", "o", "b", "i">>,
     <<"C", "r", "a", "f", "t", "s", "m", "a", "n">>,
     <<"B", "l", "a", "c", "k", " ", "&", " ", "D", "e", "c", "k", "e", "r">>,
     <<"S", "t", "a", "n", "l", "e", "y">> >>

\* const STOP_WORDS
STOP_WORDS ==
  << <<"n", "e", "w">>,
     <<"b", "o", "x">>,
     <<"o", "p", "e", "n">>,
     <<"s", "e", "a", "l", "e", "d">>,
     <<"s", "h", "i", "p">>,
     <<"r", "e", "t", "a", "i", "l">>,
     <<"b", "r", "a", "n", "d">>,
     <<"f", "a", "c", "t", "o", "r", "y">>,
     <<"o", "r", "i", "g", "i", "n", "a", "l">>,
     <<"g", "e", "n", "u", "i", "n", "e">>,
     <<"a", "u", "t", "h", "e", "n", "t", "i", "c">>,
     <<"w", "a", "r", "r", "a", "n", "t", "y">>,
     <<"r", "e", "f", "u", "r", "b", "i", "s", "h", "e", "d">>,
     <<"r", "e", "n", "e", "w", "e", "d">>,
     <<"l", "i", "k", "e">>,
     <<"c", "o", "n", "d", "i", "t", "i", "o", "n">>,
     <<"l", "o", "t">>,
     <<"p", "a", "l", "l", "e", "t">>,
     <<"m", "i", "x", "e", "d">>,
     <<"a", "s", "s", "o", "r", "t", "e", "d">>,
     <<"v", "a", "r", "i", "o", "u", "s">> >>

\* const CATEGORIES: (category, keywords), in the order of the source.
CATEGORIES ==
  << << <<"A", "p", "p", "l", "i", "a", "n", "c", "e", "s">>,
        << <<"r", "e", "f", "r", "i", "g", "e", "r", "a", "t", "o", "r">>,
           <<"f", "r", "i", "d", "g", "e">>,
           <<"d", "i", "s", "h", "w", "a", "s", "h", "e", "r">>,
           <<"w", "a", "s", "h", "e", "r">>,
           <<"d", "r", "y", "e", "r">>,
           <<"o", "v", "e", "n">>,
           <<"r", "a", "n", "g", "e">>,
           <<"s", "t", "o", "v", "e">>,
           <<"m", "i", "c", "r", "o", "w", "a", "v", "e">>,
           <<"f", "r", "e", "e", "z", "e", "r">>,
           <<"c", "o", "o", "k", "t", "o", "p">> >> >>,
     << <<"E", "l", "e", "c", "t", "r", "o", "n", "i", "c", "s">>,
        << <<"t", "v">>,
           <<"t", "e", "l", "e", "v", "i", "s", "i", "o", "n">>,
           <<"m", "o", "n", "i", "t", "o", "r">>,
           <<"l", "a", "p", "t", "o", "p">>,
           <<"c", "o", "m", "p", "u", "t", "e", "r">>,
           <<"t", "a", "b", "l", "e", "t">>,
           <<"p", "h", "o", "n", "e">>,
           <<"c", "a", "m", "e", "r", "a">>,
           <<"s", "p", "e", "a", "k", "e", "r">>,
           <<"h", "e", "a", "d", "p", "h", "o", "n", "e">>,
           <<"s", "o", "u", "n", "d", "b", "a", "r">>,
           <<"r", "e", "c", "e", "i", "v", "e", "r">>,
           <<"b", "l", "u", "-", "r", "a", "y">>,
           <<"d", "v", "d">> >> >>,
     << <<"F", "u", "r", "n", "i", "t", "u", "r", "e">>,
        << <<"s", "o", "f", "a">>,
           <<"c", "o", "u", "c", "h">>,
           <<"c", "h", "a", "i", "r">>,
           <<"t", "a", "b", "l", "e">>,
           <<"d", "e", "s", "k">>,
           <<"b", "e", "d">>,
           <<"d", "r", "e", "s", "s", "e", "r">>,
           <<"c", "a", "b", "i", "n", "e", "t">>,
           <<"s", "h", "e", "l", "f">>,
           <<"b", "o", "o", "k", "c", "a", "s", "e">>,
           <<"n", "i", "g", "h", "t", "s", "t", "a", "n", "d">> >> >>,
     << <<"T", "o", "o", "l", "s">>,
        << <<"d", "r", "i", "l", "l">>,
           <<"s", "a", "w">>,
           <<"s", "a", "n", "d", "e", "r">>,
           <<"g", "r", "i", "n", "d", "e", "r">>,
           <<"w", "r", "e", "n", "c", "h">>,
           <<"h", "a", "m", "m", "e", "r">>,
           <<"t", "o", "o", "l", " ", "s", "e", "t">>,
           <<"t", "o", "o", "l", "b", "o", "x">>,
           <<"p", "o", "w", "e", "r", " ", "t", "o", "o", "l">>,
           <<"h", "a", "n", "d", " ", "t", "o", "o", "l">> >> >>,
     << <<"H", "o", "m", "e", " ", "D", "e", "c", "o", "r">>,
        << <<"l", "a", "m", "p">>,
           <<"m", "i", "r", "r", "o", "r">>,
           <<"r", "u", "g">>,
           <<"c", "u", "r", "t", "a", "i", "n">>,
           <<"p", "i", "l", "l", "o", "w">>,
           <<"a", "r", "t", "w", "o", "r", "k">>,
           <<"v", "a", "s", "e">>,
           <<"c", "l", "o", "c", "k">> >> >>,
     << <<"K", "i", "t", "c", "h", "e", "n">>,
        << <<"b", "l", "e", "n", "d", "e", "r">>,
           <<"m", "i", "x", "e", "r">>,
           <<"t", "o", "a", "s", "t", "e", "r">>,
           <<"c", "o", "f", "f", "e", "e", " ", "m", "a", "k", "e", "r">>,
           <<"p", "o", "t">>,
           <<"p", "a", "n">>,
           <<"k", "n", "i", "f", "e", " ", "s", "e", "t">>,
           <<"c", "o", "o", "k", "w", "a", "r", "e">> >> >> >>

\* char::is_alphanumeric, char::is_whitespace on the ASCII range
IsAlphanumeric(c) ==
  c \in Range(UpperLetters) \cup Range(LowerLetters) \cup Digits
IsWhitespace(c) == c \in {" ", "\t", "\n", "\r"}

\* A word character of the regex crate (\w) on the ASCII range
IsWordChar(c) == IsAlphanumeric(c) \/ c = "_"

\* \b at offset i of s (between s[i] and s[i+1]): exactly one of the two
\* sides is a word character; outside the string there is none.
WordBoundary(s, i) ==
  LET before == i >= 1 /\ i <= Len(s) /\ IsWordChar(s[i])
      after == i + 1 >= 1 /\ i + 1 <= Len(s) /\ IsWordChar(s[i + 1])
  IN  before # after

\* The regex \b<lit>\b (lit escaped by regex::escape) matches at offset i.
WholeWordAt(s, lit, i) ==
  /\ i + Len(lit) <= Len(s)
  /\ SubSeq(s, i + 1, i + Len(lit)) = lit
  /\ WordBoundary(s, i)
  /\ WordBoundary(s, i + Len(lit))

\* Regex::is_match for \b<lit>\b
is_match(s, lit) == \E i \in 0..Len(s) : WholeWordAt(s, lit, i)

\* Regex::replace_all(s, "") for \b<lit>\b, from offset i on: the matches are
\* taken left to right in s and do not overlap.
RECURSIVE replace_all(_, _, _)
replace_all(s, lit, i) ==
  IF i >= Len(s) THEN << >>
  ELSE IF WholeWordAt(s, lit, i) THEN replace_all(s, lit, i + Len(lit))
  ELSE << s[i + 1] >> \o replace_all(s, lit, i + 1)

\* for stop_word in STOP_WORDS { result = re.replace_all(&result, "") },
\* from the k-th stop word on
RECURSIVE RemoveStopWords(_, _)
RemoveStopWords(s, k) ==
  IF k > Len(STOP_WORDS) THEN s
  ELSE RemoveStopWords(replace_all(s, STOP_WORDS[k], 0), k + 1)

\* Length of the longest prefix of s without whitespace.
RECURSIVE WordLen(_)
WordLen(s) ==
  IF s = << >> \/ IsWhitespace(Head(s)) THEN 0 ELSE 1 + WordLen(Tail(s))

\* str::split_whitespace
RECURSIVE split_whitespace(_)
split_whitespace(s) ==
  IF s = << >> THEN << >>
  ELSE IF IsWhitespace(Head(s)) THEN split_whitespace(Tail(s))
  ELSE << SubSeq(s, 1, WordLen(s)) >>
         \o split_whitespace(SubSeq(s, WordLen(s) + 1, Len(s)))

\* [&str]::join
RECURSIVE join(_, _)
join(words, sep) ==
  IF words = << >> THEN << >>
  ELSE IF Len(words) = 1 THEN words[1]
  ELSE words[1] \o sep \o join(Tail(words), sep)

\* str::trim
RECURSIVE trim_start(_)
trim_start(s) ==
  IF s # << >> /\ IsWhitespace(Head(s)) THEN trim_start(Tail(s)) ELSE s
RECURSIVE trim_end(_)
trim_end(s) ==
  IF s # << >> /\ IsWhitespace(s[Len(s)])
  THEN trim_end(SubSeq(s, 1, Len(s) - 1)) ELSE s
trim(s) == trim_end(trim_start(s))

\* chars().filter(|c| c.is_alphanumeric() || c.is_whitespace()).collect()
KeepChar(c) == IsAlphanumeric(c) \/ IsWhitespace(c)
FilterChars(s) == SelectSeq(s, KeepChar)

\* EntityExtractor::normalize_title
normalize_title(t) ==
  LET lowered == to_lowercase(t)
      unstopped == RemoveStopWords(lowered, 1)
      collapsed == join(split_whitespace(unstopped), << " " >>)
      filtered == FilterChars(collapsed)
  IN  trim(filtered)

\* Option<String>: None is << >>, Some(x) is << x >>.
None == << >>
Some(x) == << x >>

\* Mutant of BrandMatches: the brand is looked up as a plain substring.
BrandMatchesSubstring(lower, brand) == contains(lower, to_lowercase(brand))

\* The test of one brand in find_brand: \b<brand_lower>\b matches.
BrandMatches(lower, brand) == is_match(lower, to_lowercase(brand))

\* Offset of the first whole-word occurrence of a brand in the title.
BrandOffset(lower, brand) ==
  CHOOSE i \in 0..Len(lower) :
    /\ WholeWordAt(lower, to_lowercase(brand), i)
    /\ \A j \in 0..(i - 1) : ~WholeWordAt(lower, to_lowercase(brand), j)

\* Mutant of find_brand: the brand that stands first in the title wins.
find_brand_first_in_title(normalized_title) ==
  LET lower == to_lowercase(normalized_title)
      hits == { i \in DOMAIN BRANDS : BrandMatches(lower, BRANDS[i]) }
  IN  IF hits = {} THEN None
      ELSE Some(BRANDS[CHOOSE i \in hits : \A j \in hits :
                  \/ BrandOffset(lower, BRANDS[i]) < BrandOffset(lower, BRANDS[j])
                  \/ /\ BrandOffset(lower, BRANDS[i]) = BrandOffset(lower, BRANDS[j])
                     /\ i <= j])

\* EntityExtractor::find_brand: the first brand of the list that matches.
find_brand(normalized_title) ==
  LET lower == to_lowercase(normalized_title)
      hits == { i \in DOMAIN BRANDS : BrandMatches(lower, BRANDS[i]) }
  IN  IF hits = {} THEN None
      ELSE Some(BRANDS[CHOOSE i \in hits : \A j \in hits : i <= j])

\* Offsets at which pat occurs in s
OffsetsOf(s, pat) ==
  { i \in 0..(Len(s) - Len(pat)) : SubSeq(s, i + 1, i + Len(pat)) = pat }

\* Mutant of find_category: the category whose keyword stands first in the
\* title.
find_category_first_in_title(normalized_title) ==
  LET lower == to_lowercase(normalized_title)
      at(i) == UNION { OffsetsOf(lower, CATEGORIES[i][2][k]) :
                         k \in DOMAIN CATEGORIES[i][2] }
      hits == { i \in DOMAIN CATEGORIES : at(i) # {} }
  IN  IF hits = {} THEN None
      ELSE Some(CATEGORIES[CHOOSE i \in hits :
                             \A j \in hits : \E x \in at(i) : \A y \in at(j) :
                               x < y \/ (x = y /\ i <= j)][1])

\* EntityExtractor::find_category: the first category, and in it the first
\* keyword, contained in the lower-cased title.
find_category(normalized_title) ==
  LET lower == to_lowercase(normalized_title)
      hits == { i \in DOMAIN CATEGORIES :
                  \E k \in DOMAIN CATEGORIES[i][2] :
                    contains(lower, CATEGORIES[i][2][k]) }
  IN  IF hits = {} THEN None
      ELSE Some(CATEGORIES[CHOOSE i \in hits : \A j \in hits : i <= j][1])

----------------------------------------------------------------------------
(* The regex crate, for the patterns of nlp.rs: a pattern is a sequence of *)
(* elements, matched at an offset with the preference order of the crate   *)
(* (greedy repetitions, alternatives left to right, leftmost match).       *)

\* No upper limit of a repetition ({n,}, + and *)
Unbounded == -1

\* \b
Boundary == [kind |-> "boundary"]
\* ( and ) of the capture group 1
Mark == [kind |-> "mark"]
\* cls{min,max}, greedy
Repeat(cls, min, max) == [kind |-> "repeat", cls |-> cls, min |-> min, max |-> max]
\* a literal string
Literal(lit) == [i \in DOMAIN lit |-> Repeat({lit[i]}, 1, 1)]
\* (a|b|...) over sequences of elements
Alternation(alts) == [kind |-> "alternation", alts |-> alts]

\* [A-Z], \d, [A-Z0-9], \s on the ASCII range
ClassUpper == Range(UpperLetters)
ClassDigit == Digits
ClassUpperDigit == ClassUpper \cup ClassDigit
ClassSpace == {" ", "\t", "\n", "\r"}

\* Number of characters of s from offset i on that a greedy repetition takes.
RECURSIVE Run(_, _, _, _)
Run(s, i, cls, max) ==
  IF max = 0 \/ i >= Len(s) THEN 0
  ELSE IF s[i + 1] \notin cls THEN 0
  ELSE 1 + Run(s, i + 1, cls, IF max = Unbounded THEN Unbounded ELSE max - 1)

\* No match
NoMatch == << >>

\* The match of the elements at offset i: the offsets of the marks passed,
\* then the offset at which the match ends; NoMatch if there is none.  A
\* repetition gives back characters one at a time, an alternation tries its
\* alternatives in order.
RECURSIVE Match(_, _, _)
RECURSIVE MatchRepeat(_, _, _, _, _)
RECURSIVE MatchAlternation(_, _, _, _, _)
Match(s, i, elems) ==
  IF elems = << >> THEN << i >>
  ELSE LET e == Head(elems)
           rest == Tail(elems)
       IN  CASE e.kind = "boundary" ->
                  IF WordBoundary(s, i) THEN Match(s, i, rest) ELSE NoMatch
             [] e.kind = "mark" ->
                  LET m == Match(s, i, rest)
                  IN  IF m = NoMatch THEN NoMatch ELSE << i >> \o m
             [] e.kind = "repeat" ->
                  MatchRepeat(s, i, Run(s, i, e.cls, e.max), e.min, rest)
             [] e.kind = "alternation" ->
                  MatchAlternation(s, i, e.alts, 1, rest)

MatchRepeat(s, i, n, min, rest) ==
  IF n < min THEN NoMatch
  ELSE LET m == Match(s, i + n, rest)
       IN  IF m # NoMatch THEN m ELSE MatchRepeat(s, i, n - 1, min, rest)

MatchAlternation(s, i, alts, k, rest) ==
  IF k > Len(alts) THEN NoMatch
  ELSE LET m == Match(s, i, alts[k] \o rest)
       IN  IF m # NoMatch THEN m ELSE MatchAlternation(s, i, alts, k + 1, rest)

\* Regex::captures: the match at the leftmost offset that has one.
RECURSIVE CapturesFrom(_, _, _)
CapturesFrom(s, elems, i) ==
  IF i > Len(s) THEN NoMatch
  ELSE LET m == Match(s, i, elems)
       IN  IF m # NoMatch THEN m ELSE CapturesFrom(s, elems, i + 1)

captures(s, elems) == CapturesFrom(s, elems, 0)

\* The value of a string expression that panics.
Panic == << "panic" >>

\* Mutant of Group1: cap[2], a group that none of the patterns has.
Group2(s, m) == IF Len(m) < 5 THEN Panic ELSE SubSeq(s, m[3] + 1, m[4])

\* cap[1] of a match m in s: indexing a group that did not take part in the
\* match panics.
Group1(s, m) == IF Len(m) < 3 THEN Panic ELSE SubSeq(s, m[1] + 1, m[2])

\* \b([UQ]N\d{2}[A-Z]+\d{2,5}[A-Z]*)\b
SAMSUNG_MODEL ==
  << Boundary, Mark, Repeat({"U", "Q"}, 1, 1), Repeat({"N"}, 1, 1),
     Repeat(ClassDigit, 2, 2), Repeat(ClassUpper, 1, Unbounded),
     Repeat(ClassDigit, 2, 5), Repeat(ClassUpper, 0, Unbounded), Mark,
     Boundary >>

\* \b(OLED\d{2}[A-Z0-9]+|[\d]{2}[A-Z]{4,}\d{2,}[A-Z]*)\b
LG_MODEL ==
  << Boundary, Mark,
     Alternation(<<
       Literal(<<"O", "L", "E", "D">>) \o
         << Repeat(ClassDigit, 2, 2), Repeat(ClassUpperDigit, 1, Unbounded) >>,
       << Repeat(ClassDigit, 2, 2), Repeat(ClassUpper, 4, Unbounded),
          Repeat(ClassDigit, 2, Unbounded), Repeat(ClassUpper, 0, Unbounded) >>
     >>),
     Mark, Boundary >>

\* \b([A-Z]{3}\d{4}[A-Z]{2,4})\b
GE_MODEL ==
  << Boundary, Mark, Repeat(ClassUpper, 3, 3), Repeat(ClassDigit, 4, 4),
     Repeat(ClassUpper, 2, 4), Mark, Boundary >>

\* \b([A-Z]{2,}\d{3,}[A-Z0-9]*)\b
GENERIC_MODEL ==
  << Boundary, Mark, Repeat(ClassUpper, 2, Unbounded),
     Repeat(ClassDigit, 3, Unbounded), Repeat(ClassUpperDigit, 0, Unbounded),
     Mark, Boundary >>

\* Mutant of UPC_CODE: (\d{12,13}) without the word boundaries.
UPC_CODE_Unanchored == << Mark, Repeat(ClassDigit, 12, 13), Mark >>

\* \b(\d{12,13})\b
UPC_CODE == << Boundary, Mark, Repeat(ClassDigit, 12, 13), Mark, Boundary >>

\* str::starts_with
starts_with(s, prefix) ==
  Len(prefix) <= Len(s) /\ SubSeq(s, 1, Len(prefix)) = prefix

\* Mutant of GenericAccepted: nothing is rejected.
GenericAcceptedAlways(model) == TRUE

\* The filter of find_model on a match of the generic pattern.
GenericAccepted(model) ==
  ~starts_with(model, <<"N", "E", "W">>) /\ ~starts_with(model, <<"B", "O", "X">>)

\* Mutant of FindModelRule: the generic pattern is tried before the others.
FindModelRuleGenericFirst(upper) ==
  IF /\ captures(upper, GENERIC_MODEL) # NoMatch
     /\ GenericAccepted(Group1(upper, captures(upper, GENERIC_MODEL)))
    THEN "generic"
  ELSE IF captures(upper, SAMSUNG_MODEL) # NoMatch THEN "samsung"
  ELSE IF captures(upper, LG_MODEL) # NoMatch THEN "lg"
  ELSE IF captures(upper, GE_MODEL) # NoMatch THEN "ge"
  ELSE IF captures(upper, UPC_CODE) # NoMatch THEN "upc"
  ELSE "none"

\* The branch of find_model that returns, for the upper-cased title.
FindModelRule(upper) ==
  IF captures(upper, SAMSUNG_MODEL) # NoMatch THEN "samsung"
  ELSE IF captures(upper, LG_MODEL) # NoMatch THEN "lg"
  ELSE IF captures(upper, GE_MODEL) # NoMatch THEN "ge"
  ELSE IF /\ captures(upper, GENERIC_MODEL) # NoMatch
          /\ GenericAccepted(Group1(upper, captures(upper, GENERIC_MODEL)))
    THEN "generic"
  ELSE IF captures(upper, UPC_CODE) # NoMatch THEN "upc"
  ELSE "none"

\* The pattern of a branch.
PatternOf(rule) ==
  CASE rule = "samsung" -> SAMSUNG_MODEL
    [] rule = "lg" -> LG_MODEL
    [] rule = "ge" -> GE_MODEL
    [] rule = "generic" -> GENERIC_MODEL
    [] rule = "upc" -> UPC_CODE

\* EntityExtractor::find_model
find_model(raw_title) ==
  LET upper == to_uppercase(raw_title)
      rule == FindModelRule(upper)
  IN  IF rule = "none" THEN None
      ELSE LET model == Group1(upper, captures(upper, PatternOf(rule)))
           IN  IF model = Panic THEN Some(Panic)
               ELSE IF rule = "upc" THEN Some(<<"U", "P", "C", ":">> \o model)
               ELSE Some(model)

\* A call that does not return: a panic unwinds through it.
Panicked == [panic |-> TRUE]

\* Mutant of extract: the extractor remembers the brand of its last call and
\* returns it when the title has none.
extract_remembering_brand(raw_title) ==
  LET normalized == normalize_title(raw_title)
      brand == find_brand(normalized)
  IN  [normalized_title |-> normalized,
       brand |-> IF brand = None /\ entities # << >>
                 THEN entities[Len(entities)].result.brand ELSE brand,
       model |-> find_model(raw_title),
       category |-> find_category(normalized)]

\* EntityExtractor::extract
extract(raw_title) ==
  LET normalized == normalize_title(raw_title)
      model == find_model(raw_title)
  IN  IF model = Some(Panic) THEN Panicked
      ELSE [normalized_title |-> normalized,
            brand |-> find_brand(normalized),
            model |-> model,
            category |-> find_category(normalized)]


----------------------------------------------------------------------------
(* extract_screen_size and extract_capacity                                *)

DigitChars == << "0", "1", "2", "3", "4", "5", "6", "7", "8", "9" >>
DigitValue(c) == (CHOOSE i \in DOMAIN DigitChars : DigitChars[i] = c) - 1

\* str::parse::<u32> of a string of digits
RECURSIVE parse_u32(_)
parse_u32(s) ==
  IF s = << >> THEN 0
  ELSE parse_u32(SubSeq(s, 1, Len(s) - 1)) * 10 + DigitValue(s[Len(s)])

\* \b(\d{2,3})["'\s]?(inch|in|tv|television|monitor)?\b
SCREEN_SIZE ==
  << Boundary, Mark, Repeat(ClassDigit, 2, 3), Mark,
     Repeat({"\"", "'"} \cup ClassSpace, 0, 1),
     Alternation(<< Literal(<<"i", "n", "c", "h">>), Literal(<<"i", "n">>), Literal(<<"t", "v">>),
                    Literal(<<"t", "e", "l", "e", "v", "i", "s", "i", "o", "n">>), Literal(<<"m", "o", "n", "i", "t", "o", "r">>), << >> >>),
     Boundary >>

\* Mutant of ScreenSizeAccepted: every size is accepted.
ScreenSizeAcceptedAlways(size) == TRUE

\* (15..=100).contains(&size)
ScreenSizeAccepted(size) == size >= 15 /\ size <= 100

\* nlp::extract_screen_size
extract_screen_size(t) ==
  LET lower == to_lowercase(t)
      cap == captures(lower, SCREEN_SIZE)
  IN  IF cap = NoMatch THEN None
      ELSE LET size == parse_u32(Group1(lower, cap))
           IN  IF ScreenSizeAccepted(size) THEN Some(size) ELSE None

\* (\d+\.?\d*)\s*(cu\.?\s*ft|cubic\s*feet?)
CAPACITY ==
  << Mark, Repeat(ClassDigit, 1, Unbounded), Repeat({"."}, 0, 1),
     Repeat(ClassDigit, 0, Unbounded), Mark, Repeat(ClassSpace, 0, Unbounded),
     Alternation(<<
       Literal(<<"c", "u">>) \o
         << Repeat({"."}, 0, 1), Repeat(ClassSpace, 0, Unbounded) >> \o
         Literal(<<"f", "t">>),
       Literal(<<"c", "u", "b", "i", "c">>) \o << Repeat(ClassSpace, 0, Unbounded) >> \o
         Literal(<<"f", "e", "e">>) \o << Repeat({"t"}, 0, 1) >>
     >>) >>

RECURSIVE Pow10(_)
Pow10(n) == IF n = 0 THEN 1 ELSE 10 * Pow10(n - 1)

\* s without the zeros at its end
RECURSIVE StripZeros(_)
StripZeros(s) ==
  IF s # << >> /\ s[Len(s)] = "0" THEN StripZeros(SubSeq(s, 1, Len(s) - 1))
  ELSE s

\* str::parse::<f64> of digits, optionally followed by a point and digits:
\* the number mantissa / 10^scale, with the smallest scale.
parse_f64(s) ==
  LET points == { i \in DOMAIN s : s[i] = "." }
      point == IF points = {} THEN Len(s) + 1 ELSE CHOOSE i \in points : TRUE
      fraction == StripZeros(SubSeq(s, point + 1, Len(s)))
  IN  [mantissa |-> parse_u32(SubSeq(s, 1, point - 1) \o fraction),
       scale |-> Len(fraction)]

\* Mutant of CapacityAccepted: every capacity is accepted.
CapacityAcceptedAlways(capacity) == TRUE

\* (1.0..=30.0).contains(&capacity)
CapacityAccepted(capacity) ==
  /\ capacity.mantissa >= Pow10(capacity.scale)
  /\ capacity.mantissa <= 30 * Pow10(capacity.scale)

\* nlp::extract_capacity
extract_capacity(t) ==
  LET lower == to_lowercase(t)
      cap == captures(lower, CAPACITY)
  IN  IF cap = NoMatch THEN None
      ELSE LET capacity == parse_f64(Group1(lower, cap))
           IN  IF CapacityAccepted(capacity) THEN Some(capacity) ELSE None

----------------------------------------------------------------------------
(* Harness of the entity extractor: extract is applied to a title.         *)

MaxTokens == 3

\* Fragments of product titles.
Tokens ==
  { <<"n", "e", "w">>, <<"n", "e">>, <<"w">>, <<" ">>, <<"-">>, <<" ", "-", " ">>,
    <<"S", "A", "M", "S", "U", "N", "G">>, <<"s", "a", "m", "s", "u", "n", "g", "i", "t", "e">>, <<"s", "a", "m", "-", "s", "u", "n", "g">>, <<"L", "G">> }

RECURSIVE Concat(_)
Concat(ts) == IF ts = << >> THEN << >> ELSE Head(ts) \o Concat(Tail(ts))

\* Titles of at most MaxTokens fragments.
Titles ==
  { Concat(ts) : ts \in UNION { [1..n -> Tokens] : n \in 0..MaxTokens } }

InitNlp ==
  /\ auctions = << >>
  /\ auction_results = << >>
  /\ settings = SeededSettings
  /\ title \in Titles
  /\ entities = << >>
  /\ vendors = << >>
  /\ call = [retail_price |-> 0, source |-> << >>]
  /\ result = << >>
  /\ dbVendors = SeededVendors
  /\ dbLock = "free"
  /\ manifests = << >>
  /\ items = << >>
  /\ rows = << >>
  /\ waiting = {}

\* extractor.extract(&title): &self, no state of the extractor changes
Extract ==
  /\ entities = << >>
  /\ entities' = << extract(title) >>
  /\ UNCHANGED <<auctionVars, title, pricingVars, importVars>>

NextNlp == Extract

SpecNlp == InitNlp /\ [][NextNlp]_vars

----------------------------------------------------------------------------
(* Properties of extract (checked under SpecNlp)                           *)

Extracted == entities # << >>
Entities == entities[1]

\* w occurs in s as a whole word: an occurrence with no alphanumeric
\* character next to it on either side.
OccursAsWord(w, s) ==
  \E i \in 0..(Len(s) - Len(w)) :
    /\ SubSeq(s, i + 1, i + Len(w)) = w
    /\ i >= 1 => ~IsAlphanumeric(s[i])
    /\ i + Len(w) < Len(s) => ~IsAlphanumeric(s[i + Len(w) + 1])

\* C7: the normalized title contains no stop word as a whole word.
C7_NoStopWord ==
  Extracted =>
    \A k \in DOMAIN STOP_WORDS :
      ~OccursAsWord(STOP_WORDS[k], Entities.normalized_title)

\* C8: the normalized title has no leading whitespace, no trailing whitespace
\* and no two consecutive whitespace characters.
C8_NoExtraWhitespace ==
  Extracted =>
    LET n == Entities.normalized_title
    IN  /\ n # << >> => ~IsWhitespace(n[1]) /\ ~IsWhitespace(n[Len(n)])
        /\ \A i \in 1..(Len(n) - 1) : ~(IsWhitespace(n[i]) /\ IsWhitespace(n[i + 1]))

\* The titles that differ from the given one only in letter case.
SameBrandInEveryCase ==
  \A t \in {to_lowercase(title), to_uppercase(title)} :
    extract(t).brand = Entities.brand

\* C9 as stated: titles that differ only in letter case yield the same brand,
\* and a brand whose name occurs in the title only inside longer alphanumeric
\* words is not reported.
C9_WholeWordInTitle ==
  Extracted =>
    /\ SameBrandInEveryCase
    /\ \A k \in DOMAIN BRANDS :
         ( /\ contains(to_lowercase(title), to_lowercase(BRANDS[k]))
           /\ ~OccursAsWord(to_lowercase(BRANDS[k]), to_lowercase(title)) )
         => Entities.brand # Some(BRANDS[k])

\* C9 amended: titles that differ only in letter case yield the same brand,
\* and a brand is reported only if its lower-cased name occurs as a whole word
\* of the normalized title; a name that occurs there only inside a longer
\* alphanumeric word is not reported.
C9_WholeWordInNormalizedTitle ==
  Extracted =>
    /\ SameBrandInEveryCase
    /\ \A k \in DOMAIN BRANDS :
         Entities.brand = Some(BRANDS[k]) =>
           OccursAsWord(to_lowercase(BRANDS[k]), Entities.normalized_title)

\* Witness of C9: "samsungite" alone reports no brand.
C9_Witness ==
  /\ Extracted
  /\ title = <<"s", "a", "m", "s", "u", "n", "g", "i", "t", "e">>
  /\ Entities.brand = None

\* C10: of the brands that the normalized title contains as whole words, the
\* one that comes first in the brand list is returned, spelled as in the
\* list; no brand is returned when there is none.
C10_FirstBrandOfList ==
  Extracted =>
    LET present == { k \in DOMAIN BRANDS :
                       OccursAsWord(to_lowercase(BRANDS[k]),
                                    Entities.normalized_title) }
    IN  IF present = {} THEN Entities.brand = None
        ELSE \E k \in present :
               /\ \A j \in present : k <= j
               /\ Entities.brand = Some(BRANDS[k])

\* Witness of C10: "LG" stands before "SAMSUNG" in the title, and Samsung,
\* which is earlier in the list, is returned in the spelling of the list.
C10_Witness ==
  /\ Extracted
  /\ title = <<"L", "G", " ", "S", "A", "M", "S", "U", "N", "G">>
  /\ Entities.brand = Some(<<"S", "a", "m", "s", "u", "n", "g">>)

----------------------------------------------------------------------------
(* The application: commands run under AppState.db, a Mutex<Database>      *)
(* (main.rs, auctions.rs, csv_parser.rs, db.rs).                           *)

\* Mutant of normalize_source: wayfair is looked for before best buy.
normalize_source_wayfair_first(source) ==
  IF source = None THEN Unknown
  ELSE LET s == source[1]
           lower == to_lowercase(s)
       IN  IF contains(lower, <<"w", "a", "y", "f", "a", "i", "r">>) THEN <<"W", "a", "y", "f", "a", "i", "r">>
           ELSE IF contains(lower, <<"b", "e", "s", "t", " ", "b", "u", "y">>) \/ contains(lower, <<"b", "e", "s", "t", "b", "u", "y">>)
             THEN <<"B", "e", "s", "t", " ", "B", "u", "y">>
           ELSE IF contains(lower, <<"m", "e", "c", "h">>) \/ contains(lower, <<"p", "d", "x", "7">>)
             THEN <<"M", "e", "c", "h", "/", "P", "D", "X", "7">>
           ELSE IF contains(lower, <<"a", "m", "a", "z", "o", "n">>) THEN AmazonBstock
           ELSE s

\* Mutant of normalize_source: the canonical name of Best Buy is BestBuy.
normalize_source_compact_name(source) ==
  IF source = None THEN Unknown
  ELSE LET s == source[1]
           lower == to_lowercase(s)
       IN  IF contains(lower, <<"b", "e", "s", "t", " ", "b", "u", "y">>) \/ contains(lower, <<"b", "e", "s", "t", "b", "u", "y">>)
             THEN <<"B", "e", "s", "t", "B", "u", "y">>
           ELSE IF contains(lower, <<"w", "a", "y", "f", "a", "i", "r">>) THEN <<"W", "a", "y", "f", "a", "i", "r">>
           ELSE IF contains(lower, <<"m", "e", "c", "h">>) \/ contains(lower, <<"p", "d", "x", "7">>)
             THEN <<"M", "e", "c", "h", "/", "P", "D", "X", "7">>
           ELSE IF contains(lower, <<"a", "m", "a", "z", "o", "n">>) THEN AmazonBstock
           ELSE s

\* csv_parser::normalize_source
normalize_source(source) ==
  IF source = None THEN Unknown
  ELSE LET s == source[1]
           lower == to_lowercase(s)
       IN  IF contains(lower, <<"b", "e", "s", "t", " ", "b", "u", "y">>) \/ contains(lower, <<"b", "e", "s", "t", "b", "u", "y">>)
             THEN <<"B", "e", "s", "t", " ", "B", "u", "y">>
           ELSE IF contains(lower, <<"w", "a", "y", "f", "a", "i", "r">>) THEN <<"W", "a", "y", "f", "a", "i", "r">>
           ELSE IF contains(lower, <<"m", "e", "c", "h">>) \/ contains(lower, <<"p", "d", "x", "7">>)
             THEN <<"M", "e", "c", "h", "/", "P", "D", "X", "7">>
           ELSE IF contains(lower, <<"a", "m", "a", "z", "o", "n">>) THEN AmazonBstock
           ELSE s

\* PricingEngine::load_vendors: SELECT ... FROM vendors WHERE is_active = TRUE
IsActive(v) == v.is_active
load_vendors(table) == SelectSeq(table, IsActive)

\* CHECK(cost_coefficient > 0 AND cost_coefficient < 1) of the vendors table
VendorCheck(v) == v.cost_coefficient > 0 /\ v.cost_coefficient < Hundred

\* AuctionManager::update_vendor: UPDATE vendors SET cost_coefficient = ?1,
\* min_price_margin = ?2 WHERE id = ?3.  A row that would violate the CHECK
\* fails the statement, which changes nothing.
update_vendor(table, vendor_id, data) ==
  LET updated == [i \in DOMAIN table |->
                    IF table[i].id = vendor_id
                    THEN [table[i] EXCEPT
                            !.cost_coefficient = data.cost_coefficient,
                            !.min_price_margin = data.min_price_margin]
                    ELSE table[i]]
  IN  IF \A i \in DOMAIN updated : VendorCheck(updated[i])
      THEN updated ELSE table

\* CHECK(retail_price >= 0), CHECK(cost_price >= 0), CHECK(min_price >= 0) of
\* the inventory_items table
ItemCheck(item) ==
  item.retail_price >= 0 /\ item.cost_price >= 0 /\ item.min_price >= 0

MaxImports == 1
MaxRows == 2
MaxWaiting == 1

\* Parsed rows of a manifest (retail_price after clean_price, in cents).
RowPool ==
  { [lot_number |-> "1", retail_price |-> 319900,
     source |-> Some(<<"B", "e", "s", "t", "B", "u", "y", ".", "c", "o", "m">>), title |-> <<"L", "G", " ", "T", "V">>],
    [lot_number |-> "2", retail_price |-> 35, source |-> None,
     title |-> <<"n", "e", "-", "w">>] }

Manifests == UNION { [1..n -> RowPool] : n \in 0..MaxRows }

\* csv_parser::normalize_source(&row.source) for the rows of RowPool,
\* computed once.
NormalizedSources == [row \in RowPool |-> normalize_source(row.source)]

\* The engine built from the seeded vendors.
SeededEngine == load_vendors(SeededVendors)

\* The rows of RowPool as the seeded engine prices them, computed once.
SeededPrices ==
  [row \in RowPool |->
     calculate_cost(SeededEngine, row.retail_price, NormalizedSources[row])]

\* pricing_engine.calculate_cost(retail_price, &source) of the loop body.
PricedRow(engine, row) ==
  IF engine = SeededEngine THEN SeededPrices[row]
  ELSE calculate_cost(engine, row.retail_price, NormalizedSources[row])

\* The loop body of import_manifest up to the INSERT: the row to insert.
NewItem(engine, manifest_id, row, auction_id) ==
  LET retail_price == row.retail_price
      source == NormalizedSources[row]
      priced == PricedRow(engine, row)
  IN  [manifest_id |-> manifest_id,
       lot_number |-> row.lot_number,
       raw_title |-> row.title,
       source |-> source,
       retail_price |-> retail_price,
       cost_price |-> priced.cost,
       min_price |-> priced.min_price,
       current_status |-> IF auction_id # None THEN "Listed" ELSE "InStock",
       auction_id |-> auction_id,
       normalized_title |-> None,
       extracted_brand |-> None,
       extracted_model |-> None,
       category |-> None]

\* nlp_extractor.extract(&row.title) for the titles of RowPool.
ExtractedTitles == [t \in { row.title : row \in RowPool } |-> extract(t)]

\* The UPDATE of the loop body: the entities extracted from the title.
WithEntities(item) ==
  LET e == ExtractedTitles[item.raw_title]
  IN  [item EXCEPT !.normalized_title = Some(e.normalized_title),
                   !.extracted_brand = e.brand,
                   !.extracted_model = e.model,
                   !.category = e.category]

\* Arguments of update_vendor: a negative margin, and a coefficient the CHECK
\* of the table refuses.
UpdateRequests ==
  { [vendor_id |-> "bestbuy", cost_coefficient |-> 14, min_price_margin |-> -20],
    [vendor_id |-> "amazon", cost_coefficient |-> 7, min_price_margin |-> 25],
    [vendor_id |-> "wayfair", cost_coefficient |-> 100, min_price_margin |-> 10] }

Init ==
  /\ auctions = << >>
  /\ auction_results = << >>
  /\ settings = SeededSettings
  /\ dbVendors = SeededVendors
  /\ dbLock = "free"
  /\ manifests = << >>
  /\ items = << >>
  /\ rows = << >>
  /\ waiting = {}
  /\ vendors = << >>
  /\ call = [retail_price |-> 0, source |-> << >>]
  /\ result = << >>
  /\ title = << >>
  /\ entities = << >>

\* import_manifest up to the loop: the mutex is taken, the engine is built
\* from the vendors table, the file is parsed and the manifest row inserted.
ImportBegin(parsed) ==
  /\ dbLock = "free"
  /\ Len(manifests) < MaxImports
  /\ dbLock' = "import_manifest"
  /\ vendors' = load_vendors(dbVendors)
  /\ rows' = parsed
  /\ manifests' = Append(manifests,
                         [items_count |-> Len(parsed),
                          total_retail_value |-> None, total_cost |-> None])
  /\ UNCHANGED <<auctionVars, dbVendors, items, waiting, call, result, nlpVars>>

\* One pass of the loop: the row is priced by the engine, inserted, and
\* updated with the extracted entities.
ImportRow ==
  /\ dbLock = "import_manifest"
  /\ rows # << >>
  /\ ItemCheck(NewItem(vendors, Len(manifests), Head(rows), None))
  /\ items' = Append(items,
                     WithEntities(NewItem(vendors, Len(manifests), Head(rows), None)))
  /\ rows' = Tail(rows)
  /\ UNCHANGED <<auctionVars, vendors, dbVendors, dbLock, manifests, waiting, call, result,
                 nlpVars>>

\* The INSERT of a row fails a CHECK: import_manifest returns the error; the
\* guard of the mutex and the engine are dropped, what was inserted stays.
ImportRowFails ==
  /\ dbLock = "import_manifest"
  /\ rows # << >>
  /\ ~ItemCheck(NewItem(vendors, Len(manifests), Head(rows), None))
  /\ rows' = << >>
  /\ vendors' = << >>
  /\ dbLock' = "free"
  /\ UNCHANGED <<auctionVars, dbVendors, manifests, items, waiting, call, result, nlpVars>>

\* Sum of a field over the items of a manifest.
RECURSIVE SumOver(_, _, _)
SumOver(its, manifest_id, field) ==
  IF its = << >> THEN 0
  ELSE (IF Head(its).manifest_id = manifest_id THEN Head(its)[field] ELSE 0)
         + SumOver(Tail(its), manifest_id, field)

\* After the loop: the totals of the manifest are written and the command
\* returns; the guard of the mutex and the engine are dropped.
ImportEnd ==
  /\ dbLock = "import_manifest"
  /\ rows = << >>
  /\ manifests' =
       [manifests EXCEPT ![Len(manifests)] =
          [@ EXCEPT !.total_retail_value =
                      Some(SumOver(items, Len(manifests), "retail_price")),
                    !.total_cost =
                      Some(SumOver(items, Len(manifests), "cost_price"))]]
  /\ vendors' = << >>
  /\ dbLock' = "free"
  /\ UNCHANGED <<auctionVars, dbVendors, items, rows, waiting, call, result, nlpVars>>

\* The update_vendor command is invoked: it blocks on state.db.lock().
UpdateVendorCalled(req) ==
  /\ req \notin waiting
  /\ Cardinality(waiting) < MaxWaiting
  /\ waiting' = waiting \cup {req}
  /\ UNCHANGED <<auctionVars, vendors, dbVendors, dbLock, manifests, items, rows, call, result,
                 nlpVars>>

\* Mutant of MutexFree: update_vendor does not wait for the mutex.
MutexIgnored == TRUE

\* state.db.lock() returns once no command holds the mutex.
MutexFree == dbLock = "free"

\* update_vendor gets the mutex, runs the UPDATE and returns.
UpdateVendorRuns(req) ==
  /\ req \in waiting
  /\ MutexFree
  /\ dbVendors' = update_vendor(dbVendors, req.vendor_id, req)
  /\ waiting' = waiting \ {req}
  /\ UNCHANGED <<auctionVars, vendors, dbLock, manifests, items, rows, call, result, nlpVars>>

Next ==
  \/ \E parsed \in Manifests : ImportBegin(parsed)
  \/ ImportRow
  \/ ImportRowFails
  \/ ImportEnd
  \/ \E req \in UpdateRequests : UpdateVendorCalled(req)
  \/ \E req \in UpdateRequests : UpdateVendorRuns(req)

Spec == Init /\ [][Next]_vars

----------------------------------------------------------------------------
(* Claims about the snapshot of the engine.                                *)

Importing == dbLock = "import_manifest"

\* The item is priced by an engine holding the snapshot vs.
PricedBy(item, vs) ==
  LET priced == calculate_cost(vs, item.retail_price, item.source)
  IN  item.cost_price = priced.cost /\ item.min_price = priced.min_price

\* The vendors tables that update_vendor calls can produce.
RequestedVendor(v) ==
  {v} \cup { [v EXCEPT !.cost_coefficient = req.cost_coefficient,
                       !.min_price_margin = req.min_price_margin] :
             req \in {r \in UpdateRequests : r.vendor_id = v.id} }

VendorTables ==
  { <<b, w, m, a>> : b \in RequestedVendor(SeededVendors[1]),
                     w \in RequestedVendor(SeededVendors[2]),
                     m \in RequestedVendor(SeededVendors[3]),
                     a \in RequestedVendor(SeededVendors[4]) }

\* All items of every manifest are priced from one vendors table.
OneSnapshotPerImport ==
  \A m \in DOMAIN manifests :
    \E vs \in VendorTables :
      \A i \in DOMAIN items : items[i].manifest_id = m => PricedBy(items[i], vs)

\* A step of a running import leaves the snapshot of its engine and the
\* vendors table as they are, and an item it inserts is priced by the
\* snapshot.
SnapshotFixed ==
  (Importing /\ Importing') =>
    /\ vendors' = vendors
    /\ dbVendors' = dbVendors
    /\ vendors = load_vendors(dbVendors)
    /\ \A i \in DOMAIN items' :
         i \notin DOMAIN items => PricedBy(items'[i], vendors)

\* C6: the vendor snapshot of the engine of an import is fixed at
\* construction: no step of the running import (a row priced by
\* calculate_cost, an update_vendor requested meanwhile) changes the snapshot
\* or the vendors table it was loaded from, every row is priced by the
\* snapshot, and so all the items of one import are priced from one and the
\* same vendors table.
C6_SnapshotFixedDuringImport ==
  [][SnapshotFixed]_vars /\ []OneSnapshotPerImport

\* C6 witness: an import has priced a Best Buy row with its snapshot and has a
\* row left to price, while an update_vendor of Best Buy waits for the mutex.
C6_Witness ==
  /\ Importing
  /\ rows # << >>
  /\ \E i \in DOMAIN items :
       /\ items[i].manifest_id = Len(manifests)
       /\ items[i].source = <<"B", "e", "s", "t", " ", "B", "u", "y">>
       /\ items[i].cost_price = 44786
  /\ \E req \in waiting : req.vendor_id = "bestbuy"
  /\ vendors = SeededVendors

----------------------------------------------------------------------------
(* Harness of the model rules: extract is applied to titles made of model  *)
(* numbers, codes and words (as the unit tests of nlp.rs do).              *)

MaxModelTokens == 2

ModelTokens ==
  { <<"U", "N", "6", "5", "T", "U", "8", "0", "0", "0", "F", "X", "Z", "A">>, <<"O", "L", "E", "D", "6", "5", "C", "1", "P", "U", "B">>, <<"j", "v", "m", "3", "1", "6", "0", "r", "f", "s", "s">>, <<"a", "b", "1", "2", "3">>,
    <<"N", "E", "W", "2", "0", "2", "4">>, <<"b", "o", "x", "1", "2", "3">>, <<"0", "1", "2", "3", "4", "5", "6", "7", "8", "9", "0", "1">>, <<"0", "1", "2", "3", "4", "5", "6", "7", "8", "9", "0", "1", "2">>,
    <<"0", "1", "2", "3", "4", "5", "6", "7", "8", "9", "0", "1", "2", "3">>, <<"1", "2", "3", "4", "5", "6", "7", "8", "9", "0", "1">>, <<"A", "0", "1", "2", "3", "4", "5", "6", "7", "8", "9", "0", "1">>, <<"T", "V">>,
    <<"n", "e", "w">>, <<"-">> }

\* The titles of test_find_model_samsung, test_find_model_lg, test_find_model_ge
TestTitleSamsung == <<"S", "a", "m", "s", "u", "n", "g", " ", "U", "N", "6", "5", "T", "U", "8", "0", "0", "0", "F", "X", "Z", "A", " ", "6", "5", "\"", " ", "4", "K", " ", "U", "H", "D", " ", "T", "V">>
TestTitleLg == <<"L", "G", " ", "O", "L", "E", "D", "6", "5", "C", "1", "P", "U", "B", " ", "6", "5", "\"", " ", "O", "L", "E", "D", " ", "T", "V">>
TestTitleGe == <<"G", "E", " ", "P", "r", "o", "f", "i", "l", "e", " ", "J", "V", "M", "3", "1", "6", "0", "R", "F", "S", "S", " ", "O", "v", "e", "r", "-", "t", "h", "e", "-", "R", "a", "n", "g", "e", " ", "M", "i", "c", "r", "o", "w", "a", "v", "e">>

\* The tokens of ts, separated by sep
RECURSIVE Joined(_, _)
Joined(ts, sep) ==
  IF ts = << >> THEN << >>
  ELSE IF Len(ts) = 1 THEN ts[1]
  ELSE ts[1] \o sep \o Joined(Tail(ts), sep)

ModelTitles ==
  { Joined(ts, <<" ">>) :
      ts \in UNION { [1..n -> ModelTokens] : n \in 0..MaxModelTokens } }
    \cup {TestTitleSamsung, TestTitleLg, TestTitleGe}

InitModel ==
  /\ auctions = << >>
  /\ auction_results = << >>
  /\ settings = SeededSettings
  /\ title \in ModelTitles
  /\ entities = << >>
  /\ vendors = << >>
  /\ call = [retail_price |-> 0, source |-> << >>]
  /\ result = << >>
  /\ dbVendors = SeededVendors
  /\ dbLock = "free"
  /\ manifests = << >>
  /\ items = << >>
  /\ rows = << >>
  /\ waiting = {}

SpecModel == InitModel /\ [][NextNlp]_vars

----------------------------------------------------------------------------
(* Properties of the model rules (checked under SpecModel)                 *)

Upper == to_uppercase(title)

\* The rules in their order.
Rules == << "samsung", "lg", "ge", "generic", "upc" >>

\* The text a rule finds in the upper-cased title.
RuleText(k) == Group1(Upper, captures(Upper, PatternOf(Rules[k])))

\* A rule hits: its pattern matches, and for the generic rule the match is
\* not rejected.
RuleHits(k) ==
  /\ captures(Upper, PatternOf(Rules[k])) # NoMatch
  /\ Rules[k] = "generic" =>
       ~starts_with(RuleText(k), <<"N", "E", "W">>) /\ ~starts_with(RuleText(k), <<"B", "O", "X">>)

\* The model a rule returns.
RuleModel(k) ==
  IF Rules[k] = "upc" THEN Some(<<"U", "P", "C", ":">> \o RuleText(k)) ELSE Some(RuleText(k))

\* C11: the rules are tried in the order Samsung, LG, appliance, generic, UPC
\* on the upper-cased raw title and the model is the match of the first rule
\* that hits, None when no rule hits; the three test titles yield
\* UN65TU8000FXZA, OLED65C1PUB and JVM3160RFSS.
C11_FirstRuleWins ==
  Extracted =>
    /\ \A k \in DOMAIN Rules :
         (RuleHits(k) /\ \A j \in 1..(k - 1) : ~RuleHits(j))
           => Entities.model = RuleModel(k)
    /\ (\A k \in DOMAIN Rules : ~RuleHits(k)) => Entities.model = None
    /\ title = TestTitleSamsung => Entities.model = Some(<<"U", "N", "6", "5", "T", "U", "8", "0", "0", "0", "F", "X", "Z", "A">>)
    /\ title = TestTitleLg => Entities.model = Some(<<"O", "L", "E", "D", "6", "5", "C", "1", "P", "U", "B">>)
    /\ title = TestTitleGe => Entities.model = Some(<<"J", "V", "M", "3", "1", "6", "0", "R", "F", "S", "S">>)

\* C11 witness: an appliance model stands before a Samsung model in the
\* title, and the Samsung model is returned.
C11_Witness ==
  /\ Extracted
  /\ title = <<"j", "v", "m", "3", "1", "6", "0", "r", "f", "s", "s", " ", "U", "N", "6", "5", "T", "U", "8", "0", "0", "0", "F", "X", "Z", "A">>
  /\ Entities.model = Some(<<"U", "N", "6", "5", "T", "U", "8", "0", "0", "0", "F", "X", "Z", "A">>)

\* The words of s that whitespace separates.
WordsOf(s) == Range(split_whitespace(s))

HasDigit(w) == \E i \in DOMAIN w : w[i] \in Digits

\* NEW or BOX followed by digits only
NewOrBoxNumber(w) ==
  /\ Len(w) > 3
  /\ SubSeq(w, 1, 3) \in {<<"N", "E", "W">>, <<"B", "O", "X">>}
  /\ \A i \in 4..Len(w) : w[i] \in Digits

\* C12: a title whose only words with digits are NEW or BOX followed by
\* digits yields no model, and a model returned by the generic rule never
\* starts with NEW or BOX.
C12_NewAndBoxRejected ==
  Extracted =>
    /\ (\A w \in WordsOf(Upper) : HasDigit(w) => NewOrBoxNumber(w))
         => Entities.model = None
    /\ FindModelRule(Upper) = "generic" =>
         /\ ~starts_with(Entities.model[1], <<"N", "E", "W">>)
         /\ ~starts_with(Entities.model[1], <<"B", "O", "X">>)

\* C12 witness: the title NEW2024 box123 yields no model.
C12_Witness ==
  /\ Extracted
  /\ title = <<"N", "E", "W", "2", "0", "2", "4", " ", "b", "o", "x", "1", "2", "3">>
  /\ captures(Upper, GENERIC_MODEL) # NoMatch
  /\ Entities.model = None

\* A standalone run of n digits at offset i of s: no word character stands
\* next to it.
StandaloneDigits(s, i, n) ==
  /\ i + n <= Len(s)
  /\ \A j \in (i + 1)..(i + n) : s[j] \in Digits
  /\ i >= 1 => ~IsWordChar(s[i])
  /\ i + n < Len(s) => ~IsWordChar(s[i + n + 1])

\* The offsets of the standalone runs of 12 or 13 digits.
UpcOffsets(s) ==
  { i \in 0..Len(s) : \E n \in {12, 13} : StandaloneDigits(s, i, n) }

\* The standalone run of 12 or 13 digits at offset i.
UpcAt(s, i) ==
  SubSeq(s, i + 1, i + (CHOOSE n \in {12, 13} : StandaloneDigits(s, i, n)))

Minimum(S) == CHOOSE x \in S : \A y \in S : x <= y

\* C13: when the Samsung, LG, appliance and generic rules yield no model, the
\* model is UPC: followed by the first standalone run of 12 or 13 digits of
\* the title, and None when there is no such run: shorter and longer runs of
\* digits are not returned.
C13_UpcFallback ==
  (Extracted /\ FindModelRule(Upper) \in {"upc", "none"}) =>
    IF UpcOffsets(Upper) = {} THEN Entities.model = None
    ELSE Entities.model =
           Some(<<"U", "P", "C", ":">> \o UpcAt(Upper, Minimum(UpcOffsets(Upper))))

\* C13 witness: a run of 14 digits stands before a run of 13 digits, and the
\* run of 13 is returned.
C13_Witness ==
  /\ Extracted
  /\ title = <<"0", "1", "2", "3", "4", "5", "6", "7", "8", "9", "0", "1", "2", "3", " ", "0", "1", "2", "3", "4", "5", "6", "7", "8", "9", "0", "1", "2">>
  /\ Entities.model = Some(<<"U", "P", "C", ":", "0", "1", "2", "3", "4", "5", "6", "7", "8", "9", "0", "1", "2">>)

----------------------------------------------------------------------------
(* Harness of the categories: extract is applied to titles made of         *)
(* keywords of the categories and other words.                             *)

MaxCategoryTokens == 2

CategoryTokens ==
  { <<"R", "e", "f", "r", "i", "g", "e", "r", "a", "t", "o", "r">>, <<"T", "V">>, <<"s", "o", "f", "a">>, <<"D", "r", "i", "l", "l">>, <<"l", "a", "m", "p">>, <<"b", "l", "e", "n", "d", "e", "r">>,
    <<"w", "o", "v", "e", "n">>, <<"M", "y", "s", "t", "e", "r", "y">>, <<"I", "t", "e", "m">> }

\* The titles of test_find_category
TestTitlesCategory ==
  { <<"S", "a", "m", "s", "u", "n", "g", " ", "R", "e", "f", "r", "i", "g", "e", "r", "a", "t", "o", "r">>, <<"6", "5", "\"", " ", "T", "V", " ", "T", "e", "l", "e", "v", "i", "s", "i", "o", "n">>, <<"L", "e", "a", "t", "h", "e", "r", " ", "S", "o", "f", "a">>,
    <<"D", "e", "W", "a", "l", "t", " ", "D", "r", "i", "l", "l", " ", "S", "e", "t">>, <<"M", "y", "s", "t", "e", "r", "y", " ", "I", "t", "e", "m">> }

CategoryTitles ==
  { Joined(ts, <<" ">>) :
      ts \in UNION { [1..n -> CategoryTokens] : n \in 0..MaxCategoryTokens } }
    \cup TestTitlesCategory

InitCategory ==
  /\ auctions = << >>
  /\ auction_results = << >>
  /\ settings = SeededSettings
  /\ title \in CategoryTitles
  /\ entities = << >>
  /\ vendors = << >>
  /\ call = [retail_price |-> 0, source |-> << >>]
  /\ result = << >>
  /\ dbVendors = SeededVendors
  /\ dbLock = "free"
  /\ manifests = << >>
  /\ items = << >>
  /\ rows = << >>
  /\ waiting = {}

SpecCategory == InitCategory /\ [][NextNlp]_vars

----------------------------------------------------------------------------
(* Properties of the categories (checked under SpecCategory)               *)

\* The order of the categories.
CategoryOrder ==
  << <<"A", "p", "p", "l", "i", "a", "n", "c", "e", "s">>, <<"E", "l", "e", "c", "t", "r", "o", "n", "i", "c", "s">>, <<"F", "u", "r", "n", "i", "t", "u", "r", "e">>, <<"T", "o", "o", "l", "s">>,
     <<"H", "o", "m", "e", " ", "D", "e", "c", "o", "r">>, <<"K", "i", "t", "c", "h", "e", "n">> >>

\* A keyword of the category is a substring of s.
HasKeywordOf(name, s) ==
  \E i \in DOMAIN CATEGORIES :
    /\ CATEGORIES[i][1] = name
    /\ \E k \in DOMAIN CATEGORIES[i][2] :
         OffsetsOf(s, CATEGORIES[i][2][k]) # {}

\* C14: the category is the first one, in the order Appliances, Electronics,
\* Furniture, Tools, Home Decor, Kitchen, that has a keyword occurring as a
\* substring of the normalized title, and None when no category has one.
C14_FirstCategoryOfTable ==
  Extracted =>
    /\ \A k \in DOMAIN CategoryOrder :
         (/\ HasKeywordOf(CategoryOrder[k], Entities.normalized_title)
          /\ \A j \in 1..(k - 1) :
               ~HasKeywordOf(CategoryOrder[j], Entities.normalized_title))
           => Entities.category = Some(CategoryOrder[k])
    /\ (\A k \in DOMAIN CategoryOrder :
          ~HasKeywordOf(CategoryOrder[k], Entities.normalized_title))
         => Entities.category = None
    /\ title = <<"S", "a", "m", "s", "u", "n", "g", " ", "R", "e", "f", "r", "i", "g", "e", "r", "a", "t", "o", "r">> => Entities.category = Some(<<"A", "p", "p", "l", "i", "a", "n", "c", "e", "s">>)
    /\ title = <<"6", "5", "\"", " ", "T", "V", " ", "T", "e", "l", "e", "v", "i", "s", "i", "o", "n">> => Entities.category = Some(<<"E", "l", "e", "c", "t", "r", "o", "n", "i", "c", "s">>)
    /\ title = <<"L", "e", "a", "t", "h", "e", "r", " ", "S", "o", "f", "a">> => Entities.category = Some(<<"F", "u", "r", "n", "i", "t", "u", "r", "e">>)
    /\ title = <<"D", "e", "W", "a", "l", "t", " ", "D", "r", "i", "l", "l", " ", "S", "e", "t">> => Entities.category = Some(<<"T", "o", "o", "l", "s">>)
    /\ title = <<"M", "y", "s", "t", "e", "r", "y", " ", "I", "t", "e", "m">> => Entities.category = None

\* C14 witness: a keyword of Furniture stands before a keyword of
\* Electronics in the title, and the category is Electronics.
C14_Witness ==
  /\ Extracted
  /\ title = <<"s", "o", "f", "a", " ", "T", "V">>
  /\ Entities.normalized_title = <<"s", "o", "f", "a", " ", "t", "v">>
  /\ Entities.category = Some(<<"E", "l", "e", "c", "t", "r", "o", "n", "i", "c", "s">>)

\* The title holds nothing but stop words, punctuation and whitespace.
OnlyStopWordsAndPunctuation(t) ==
  \A w \in WordsOf(to_lowercase(t)) :
    \/ w \in Range(STOP_WORDS)
    \/ \A i \in DOMAIN w : ~IsAlphanumeric(w[i])

\* C15: extract returns a result for every title and never an error, also
\* for the empty title and for titles of stop words or punctuation only, and
\* a title in which nothing matches has no brand, no model and no category.
C15_ExtractIsTotal ==
  Extracted =>
    /\ DOMAIN Entities = {"normalized_title", "brand", "model", "category"}
    /\ \A f \in {"brand", "model", "category"} :
         Entities[f] = None \/ (Len(Entities[f]) = 1 /\ Entities[f][1] # Panic)
    /\ OnlyStopWordsAndPunctuation(title) =>
         /\ Entities.normalized_title = << >>
         /\ Entities.brand = None
         /\ Entities.model = None
         /\ Entities.category = None

\* C15 witness: the title of a stop word and a dash gives an empty result.
C15_Witness ==
  /\ Extracted
  /\ title = <<"n", "e", "w", " ", "-">>
  /\ Entities =
       [normalized_title |-> << >>, brand |-> None, model |-> None,
        category |-> None]

----------------------------------------------------------------------------
(* Harness of repeated calls: one extractor is called several times; the   *)
(* titles and results of the calls are kept in entities.                   *)

MaxCalls == 3

CallTitles ==
  { << >>, <<"L", "G", " ", "T", "V">>, <<"S", "A", "M", "S", "U", "N", "G", " ", "s", "o", "f", "a">>, <<"n", "e", "w", " ", "-", " ", "b", "o", "x">>, <<"j", "v", "m", "3", "1", "6", "0", "r", "f", "s", "s">> }

InitCalls ==
  /\ auctions = << >>
  /\ auction_results = << >>
  /\ settings = SeededSettings
  /\ title = << >>
  /\ entities = << >>
  /\ vendors = << >>
  /\ call = [retail_price |-> 0, source |-> << >>]
  /\ result = << >>
  /\ dbVendors = SeededVendors
  /\ dbLock = "free"
  /\ manifests = << >>
  /\ items = << >>
  /\ rows = << >>
  /\ waiting = {}

\* extractor.extract(&t) on the same extractor
ExtractCall(t) ==
  /\ Len(entities) < MaxCalls
  /\ title' = t
  /\ entities' = Append(entities, [title |-> t, result |-> extract(t)])
  /\ UNCHANGED <<auctionVars, pricingVars, importVars>>

NextCalls == \E t \in CallTitles : ExtractCall(t)

SpecCalls == InitCalls /\ [][NextCalls]_vars

----------------------------------------------------------------------------
(* Harness of extract_screen_size and extract_capacity: each is applied to *)
(* a title (as the unit tests of nlp.rs do).                               *)

MaxUtilTokens == 2

SizeTokens ==
  { <<"6", "5", "\"">>, <<"5", "5">>, <<"i", "n", "c", "h">>, <<"9", "9", "9">>, <<"1", "0", "0">>, <<"1", "0", "1">>, <<"1", "5">>, <<"1", "4">>,
    <<"5", "5", "i", "n", "c", "h">>, <<"2", "7", ".", "5">>, <<"1", "0", "8", "0", "p">>, <<"T", "V">> }

CapacityTokens ==
  { <<"2", "5">>, <<"1", "8", ".", "5">>, <<"c", "u", ".", " ", "f", "t", ".">>, <<"c", "u", "b", "i", "c", " ", "f", "e", "e", "t">>, <<"C", "u", " ", "F", "t">>, <<"3", "0">>,
    <<"3", "0", ".", "5">>, <<"0", ".", "9">>, <<".", "7">>, <<"1">>, <<"3", "1">>, <<"c", "u", "f", "t">> }

\* The titles of test_extract_screen_size and test_extract_capacity
TestTitlesUtil ==
  { <<"S", "a", "m", "s", "u", "n", "g", " ", "6", "5", "\"", " ", "T", "V">>, <<"5", "5", " ", "i", "n", "c", "h", " ", "M", "o", "n", "i", "t", "o", "r">>, <<"N", "o", " ", "s", "i", "z", "e", " ", "h", "e", "r", "e">>,
    <<"9", "9", "9", " ", "i", "n", "c", "h", " ", "i", "n", "v", "a", "l", "i", "d">>, <<"2", "5", " ", "c", "u", ".", " ", "f", "t", ".", " ", "R", "e", "f", "r", "i", "g", "e", "r", "a", "t", "o", "r">>,
    <<"1", "8", ".", "5", " ", "c", "u", "b", "i", "c", " ", "f", "e", "e", "t", " ", "F", "r", "i", "d", "g", "e">>, <<"N", "o", " ", "c", "a", "p", "a", "c", "i", "t", "y">> }

UtilTitles ==
  { Joined(ts, <<" ">>) :
      ts \in UNION { [1..n -> SizeTokens] : n \in 0..MaxUtilTokens } }
    \cup
  { Joined(ts, <<" ">>) :
      ts \in UNION { [1..n -> CapacityTokens] : n \in 0..MaxUtilTokens } }
    \cup TestTitlesUtil

InitUtil ==
  /\ auctions = << >>
  /\ auction_results = << >>
  /\ settings = SeededSettings
  /\ title \in UtilTitles
  /\ entities = << >>
  /\ vendors = << >>
  /\ call = [retail_price |-> 0, source |-> << >>]
  /\ result = << >>
  /\ dbVendors = SeededVendors
  /\ dbLock = "free"
  /\ manifests = << >>
  /\ items = << >>
  /\ rows = << >>
  /\ waiting = {}

\* extract_screen_size(&title)
ExtractScreenSize ==
  /\ entities = << >>
  /\ entities' = << [screen_size |-> extract_screen_size(title)] >>
  /\ UNCHANGED <<auctionVars, title, pricingVars, importVars>>

\* extract_capacity(&title)
ExtractCapacity ==
  /\ entities = << >>
  /\ entities' = << [capacity |-> extract_capacity(title)] >>
  /\ UNCHANGED <<auctionVars, title, pricingVars, importVars>>

NextUtil == ExtractScreenSize \/ ExtractCapacity

SpecUtil == InitUtil /\ [][NextUtil]_vars

----------------------------------------------------------------------------
(* Properties of extract_screen_size and extract_capacity (checked under   *)
(* SpecUtil)                                                               *)

ScreenSizeExtracted == entities # << >> /\ "screen_size" \in DOMAIN entities[1]
ScreenSize == entities[1].screen_size
CapacityExtracted == entities # << >> /\ "capacity" \in DOMAIN entities[1]
Capacity == entities[1].capacity

\* The numbers of 2 or 3 digits that stand alone in s: no word character
\* stands before the digits and no digit after them.
StandaloneNumbers(s) ==
  { parse_u32(SubSeq(s, i + 1, i + n)) :
      <<i, n>> \in
        { p \in (0..Len(s)) \X {2, 3} :
            /\ p[1] + p[2] <= Len(s)
            /\ \A j \in (p[1] + 1)..(p[1] + p[2]) : s[j] \in Digits
            /\ p[1] >= 1 => ~IsWordChar(s[p[1]])
            /\ p[1] + p[2] < Len(s) => s[p[1] + p[2] + 1] \notin Digits } }

\* C17: a screen size that is returned lies in [15, 100] and is a standalone
\* number of 2 or 3 digits of the title; a title whose standalone numbers are
\* all outside [15, 100], or that has none, yields None.
C17_ScreenSizeInRange ==
  ScreenSizeExtracted =>
    /\ ScreenSize # None =>
         /\ ScreenSize[1] >= 15 /\ ScreenSize[1] <= 100
         /\ ScreenSize[1] \in StandaloneNumbers(to_lowercase(title))
    /\ (\A v \in StandaloneNumbers(to_lowercase(title)) : v < 15 \/ v > 100)
         => ScreenSize = None
    /\ title = <<"S", "a", "m", "s", "u", "n", "g", " ", "6", "5", "\"", " ", "T", "V">> => ScreenSize = Some(65)
    /\ title = <<"5", "5", " ", "i", "n", "c", "h", " ", "M", "o", "n", "i", "t", "o", "r">> => ScreenSize = Some(55)
    /\ title = <<"N", "o", " ", "s", "i", "z", "e", " ", "h", "e", "r", "e">> => ScreenSize = None
    /\ title = <<"9", "9", "9", " ", "i", "n", "c", "h", " ", "i", "n", "v", "a", "l", "i", "d">> => ScreenSize = None

\* C17 witness: the only number of the title is 999, and no size is returned.
C17_Witness ==
  /\ ScreenSizeExtracted
  /\ title = <<"9", "9", "9", " ", "i", "n", "c", "h", " ", "i", "n", "v", "a", "l", "i", "d">>
  /\ StandaloneNumbers(to_lowercase(title)) = {999}
  /\ ScreenSize = None

\* A number as the capacity pattern reads it: digits, then optionally a point
\* and digits.
IsDecimal(w) ==
  /\ w # << >>
  /\ w[1] \in Digits
  /\ Cardinality({ i \in DOMAIN w : w[i] = "." }) <= 1

\* A cubic-feet marker follows offset j of s, after optional whitespace:
\* cu ft, cu. ft, cubic feet, with or without the whitespace.
MarkerAt(s, j) ==
  LET rest == trim_start(SubSeq(s, j + 1, Len(s)))
      afterCu == SubSeq(rest, 3, Len(rest))
      afterPoint == IF starts_with(afterCu, <<".">>) THEN Tail(afterCu) ELSE afterCu
  IN  \/ starts_with(rest, <<"c", "u">>) /\ starts_with(trim_start(afterPoint), <<"f", "t">>)
      \/ /\ starts_with(rest, <<"c", "u", "b", "i", "c">>)
         /\ starts_with(trim_start(SubSeq(rest, 6, Len(rest))), <<"f", "e", "e">>)

\* The digits and points of s from offset i on
NumberAt(s, i) == SubSeq(s, i + 1, i + Run(s, i, Digits \cup {"."}, Unbounded))

\* The offsets of s at which a number stands before a marker.
CapacityOffsets(s) ==
  { i \in 0..Len(s) :
      IsDecimal(NumberAt(s, i)) /\ MarkerAt(s, i + Len(NumberAt(s, i))) }

\* The number lies in [1.0, 30.0]
WithinCapacityRange(v) ==
  v.mantissa >= Pow10(v.scale) /\ v.mantissa <= 30 * Pow10(v.scale)

\* C18: the capacity is the number standing before the first cubic-feet
\* marker of the title if that number lies in [1.0, 30.0]; a title without a
\* number before a marker, or with that number out of range, yields None.
C18_CapacityInRange ==
  CapacityExtracted =>
    LET lower == to_lowercase(title)
        offsets == CapacityOffsets(lower)
        number == parse_f64(NumberAt(lower, Minimum(offsets)))
    IN  /\ offsets = {} => Capacity = None
        /\ (offsets # {} /\ WithinCapacityRange(number)) => Capacity = Some(number)
        /\ (offsets # {} /\ ~WithinCapacityRange(number)) => Capacity = None
        /\ title = <<"2", "5", " ", "c", "u", ".", " ", "f", "t", ".", " ", "R", "e", "f", "r", "i", "g", "e", "r", "a", "t", "o", "r">>
             => Capacity = Some([mantissa |-> 25, scale |-> 0])
        /\ title = <<"1", "8", ".", "5", " ", "c", "u", "b", "i", "c", " ", "f", "e", "e", "t", " ", "F", "r", "i", "d", "g", "e">>
             => Capacity = Some([mantissa |-> 185, scale |-> 1])
        /\ title = <<"N", "o", " ", "c", "a", "p", "a", "c", "i", "t", "y">> => Capacity = None

\* C18 witness: 30.5 stands before a marker, is out of range, and no capacity
\* is returned.
C18_Witness ==
  /\ CapacityExtracted
  /\ title = <<"3", "0", ".", "5", " ", "C", "u", " ", "F", "t">>
  /\ CapacityOffsets(to_lowercase(title)) = {0, 1, 3}
  /\ Capacity = None

----------------------------------------------------------------------------
(* Harness of the source of a row: an engine over the seeded vendors       *)
(* prices a row as the loop of import_manifest does, from its retail price *)
(* and its optional source.                                                *)

MaxSourceTokens == 2

SourceTokens ==
  { <<"B", "e", "s", "t", " ", "B", "u", "y">>, <<"b", "e", "s", "t", "b", "u", "y">>, <<"W", "A", "Y", "F", "A", "I", "R">>, <<"M", "e", "c", "h">>, <<"p", "d", "x", "7">>, <<"A", "m", "a", "z", "o", "n">>,
    <<"L", "i", "q", "u", "i", "d", "a", "t", "i", "o", "n">>, <<"U", "n", "k", "n", "o", "w", "n">>, <<"B", "-", "S", "t", "o", "c", "k">> }

\* The sources of test_normalize_source
TestSources ==
  { <<"B", "e", "s", "t", " ", "B", "u", "y">>, <<"b", "e", "s", "t", " ", "b", "u", "y", " ", "w", "h", "o", "l", "e", "s", "a", "l", "e">>, <<"W", "a", "y", "f", "a", "i", "r">>, <<"M", "e", "c", "h", " ", "D", "i", "s", "t", "r", "i", "b", "u", "t", "i", "o", "n">>,
    <<"P", "D", "X", "7">>, <<"A", "m", "a", "z", "o", "n", " ", "B", "-", "S", "t", "o", "c", "k">> }

Sources ==
  {None} \cup
  { Some(s) :
      s \in { Joined(ts, <<" ">>) :
                ts \in UNION { [1..n -> SourceTokens] : n \in 0..MaxSourceTokens } }
              \cup TestSources }

RowPrices == {0, 35, 319900}

InitSource ==
  /\ auctions = << >>
  /\ auction_results = << >>
  /\ settings = SeededSettings
  /\ dbVendors = SeededVendors
  /\ vendors = load_vendors(SeededVendors)
  /\ call \in [retail_price : RowPrices, source : Sources]
  /\ result = << >>
  /\ dbLock = "free"
  /\ manifests = << >>
  /\ items = << >>
  /\ rows = << >>
  /\ waiting = {}
  /\ title = << >>
  /\ entities = << >>

\* let source = normalize_source(&row.source);
\* let (cost, min_price, _vendor) = pricing_engine.calculate_cost(retail_price, &source);
PriceRow ==
  /\ result = << >>
  /\ result' =
       << [source |-> normalize_source(call.source),
           priced |-> calculate_cost(vendors, call.retail_price,
                                     normalize_source(call.source))] >>
  /\ UNCHANGED <<auctionVars, vendors, call, importVars, nlpVars>>

NextSource == PriceRow

SpecSource == InitSource /\ [][NextSource]_vars

----------------------------------------------------------------------------
(* Properties of the source of a row (checked under SpecSource)            *)

RowPriced == result # << >>
RowSource == result[1].source
RowVendor == result[1].priced.vendor

\* pat occurs in the source of the call, whatever the case of its letters.
SourceHas(pat) == OffsetsOf(to_lowercase(call.source[1]), pat) # {}

\* C19: normalize_source gives Best Buy for a source with "best buy" or
\* "bestbuy", else Wayfair for one with "wayfair", else Mech/PDX7 for one
\* with "mech" or "pdx7", else Amazon Bstock for one with "amazon", else the
\* source itself, whatever the case of the letters; a missing source gives
\* Unknown.
C19_NormalizeSourcePrecedence ==
  RowPriced =>
    IF call.source = None THEN RowSource = <<"U", "n", "k", "n", "o", "w", "n">>
    ELSE /\ RowSource =
              (IF SourceHas(<<"b", "e", "s", "t", " ", "b", "u", "y">>) \/ SourceHas(<<"b", "e", "s", "t", "b", "u", "y">>)
                 THEN <<"B", "e", "s", "t", " ", "B", "u", "y">>
               ELSE IF SourceHas(<<"w", "a", "y", "f", "a", "i", "r">>) THEN <<"W", "a", "y", "f", "a", "i", "r">>
               ELSE IF SourceHas(<<"m", "e", "c", "h">>) \/ SourceHas(<<"p", "d", "x", "7">>)
                 THEN <<"M", "e", "c", "h", "/", "P", "D", "X", "7">>
               ELSE IF SourceHas(<<"a", "m", "a", "z", "o", "n">>) THEN <<"A", "m", "a", "z", "o", "n", " ", "B", "s", "t", "o", "c", "k">>
               ELSE call.source[1])
         /\ call.source = Some(<<"B", "e", "s", "t", " ", "B", "u", "y">>) => RowSource = <<"B", "e", "s", "t", " ", "B", "u", "y">>
         /\ call.source = Some(<<"b", "e", "s", "t", " ", "b", "u", "y", " ", "w", "h", "o", "l", "e", "s", "a", "l", "e">>) => RowSource = <<"B", "e", "s", "t", " ", "B", "u", "y">>
         /\ call.source = Some(<<"W", "a", "y", "f", "a", "i", "r">>) => RowSource = <<"W", "a", "y", "f", "a", "i", "r">>
         /\ call.source = Some(<<"M", "e", "c", "h", " ", "D", "i", "s", "t", "r", "i", "b", "u", "t", "i", "o", "n">>) => RowSource = <<"M", "e", "c", "h", "/", "P", "D", "X", "7">>
         /\ call.source = Some(<<"P", "D", "X", "7">>) => RowSource = <<"M", "e", "c", "h", "/", "P", "D", "X", "7">>
         /\ call.source = Some(<<"A", "m", "a", "z", "o", "n", " ", "B", "-", "S", "t", "o", "c", "k">>) => RowSource = <<"A", "m", "a", "z", "o", "n", " ", "B", "s", "t", "o", "c", "k">>

\* C19 witness: a source naming Wayfair, then Best Buy, gives Best Buy.
C19_Witness ==
  /\ RowPriced
  /\ call.source = Some(<<"W", "A", "Y", "F", "A", "I", "R", " ", "b", "e", "s", "t", "b", "u", "y">>)
  /\ RowSource = <<"B", "e", "s", "t", " ", "B", "u", "y">>

\* The canonical names of normalize_source.
CanonicalNames ==
  { <<"B", "e", "s", "t", " ", "B", "u", "y">>, <<"W", "a", "y", "f", "a", "i", "r">>, <<"M", "e", "c", "h", "/", "P", "D", "X", "7">>, <<"A", "m", "a", "z", "o", "n", " ", "B", "s", "t", "o", "c", "k">> }

\* The seeded vendor of a name.
SeededVendor(name) ==
  SeededVendors[CHOOSE i \in DOMAIN SeededVendors : SeededVendors[i].name = name]

\* The source of the call names one of the vendors that normalize_source
\* knows.
Recognised ==
  /\ call.source # None
  /\ \/ SourceHas(<<"b", "e", "s", "t", " ", "b", "u", "y">>) \/ SourceHas(<<"b", "e", "s", "t", "b", "u", "y">>)
     \/ SourceHas(<<"w", "a", "y", "f", "a", "i", "r">>)
     \/ SourceHas(<<"m", "e", "c", "h">>) \/ SourceHas(<<"p", "d", "x", "7">>)
     \/ SourceHas(<<"a", "m", "a", "z", "o", "n">>)

\* C20: with the seeded vendors, a row is priced by the vendor whose canonical
\* name normalize_source returned when the source is recognised, by Amazon
\* Bstock otherwise (also for a missing source), and never gets the Unknown
\* result.
C20_SourceResolvesToSeededVendor ==
  RowPriced =>
    LET v == SeededVendor(RowVendor)
    IN  /\ Recognised => RowVendor = RowSource
        /\ ~Recognised => RowVendor = <<"A", "m", "a", "z", "o", "n", " ", "B", "s", "t", "o", "c", "k">>
        /\ RowVendor \in CanonicalNames
        /\ result[1].priced.cost = Round2(call.retail_price * v.cost_coefficient, Hundred)
        /\ result[1].priced.min_price =
             Round2(result[1].priced.cost * Hundred
                      + call.retail_price * v.min_price_margin, Hundred)

\* C20 witness: a missing source becomes Unknown and is priced by Amazon
\* Bstock.
C20_Witness ==
  /\ RowPriced
  /\ call = [retail_price |-> 319900, source |-> None]
  /\ RowSource = <<"U", "n", "k", "n", "o", "w", "n">>
  /\ result[1].priced = [cost |-> 63980, min_price |-> 95970, vendor |-> <<"A", "m", "a", "z", "o", "n", " ", "B", "s", "t", "o", "c", "k">>]

----------------------------------------------------------------------------
(* Auctions and reconciliation: the commands that assign items to          *)
(* auctions and settle an auction against the results of HiBid. An item    *)
(* id is the position of the row in items, an auction id the position of   *)
(* the row in auctions. Every command holds the mutex from its first to    *)
(* its last statement.                                                     *)

\* CHECK(current_status IN (...)) of the inventory_items table
ItemStatuses == {"InStock", "Listed", "Sold", "Buyback", "Scrap"}

\* REFERENCES auctions(id) with PRAGMA foreign_keys=ON: the auction exists.
AuctionExists(aucs, auction_id) == auction_id \in DOMAIN aucs

\* SELECT COUNT(*) FROM inventory_items WHERE auction_id = ?1
CountLots(its, auction_id) ==
  Cardinality({ i \in DOMAIN its : its[i].auction_id = Some(auction_id) })

\* Mutant of RecountLots: total_lots is left as it is.
RecountLotsNever(aucs, its, auction_id) == aucs

\* UPDATE auctions SET total_lots = (SELECT COUNT(*) ...) WHERE id = ?1
RecountLots(aucs, its, auction_id) ==
  [a \in DOMAIN aucs |->
     IF a = auction_id
     THEN [aucs[a] EXCEPT !.total_lots = CountLots(its, auction_id)]
     ELSE aucs[a]]

\* AuctionManager::create_auction: the row inserted.
create_auction == [status |-> "Draft", total_lots |-> 0]

\* One pass of the loop of import_manifest, from the state [items,
\* total_retail, total_cost, ok]: the INSERT of the item, the UPDATE of its
\* entities and the totals. An item that fails a CHECK or the foreign key of
\* auction_id ends the command with an error.
InsertItem(st, item, aucs) ==
  IF /\ ItemCheck(item)
     /\ item.auction_id # None => AuctionExists(aucs, item.auction_id[1])
  THEN [st EXCEPT !.items = Append(@, WithEntities(item)),
                  !.total_retail = @ + item.retail_price,
                  !.total_cost = @ + item.cost_price]
  ELSE [st EXCEPT !.ok = FALSE]

\* The loop of import_manifest over the parsed rows. The rows inserted
\* before an error stay, as no transaction is open.
RECURSIVE ImportRows(_, _, _, _, _, _)
ImportRows(st, engine, manifest_id, parsed, auction_id, aucs) ==
  IF parsed = << >> \/ ~st.ok THEN st
  ELSE ImportRows(InsertItem(st,
                             NewItem(engine, manifest_id, Head(parsed),
                                     auction_id),
                             aucs),
                  engine, manifest_id, Tail(parsed), auction_id, aucs)

\* import_manifest after the lock: the manifests and items tables after the
\* call, and what it returns. The manifest row is inserted with the number
\* of parsed rows before the loop; its totals are written after the loop.
ImportOutcome(mans, parsed, done) ==
  [items |-> done.items,
   manifests |->
     Append(mans,
            [items_count |-> Len(parsed),
             total_retail_value |->
               IF done.ok THEN Some(done.total_retail) ELSE None,
             total_cost |-> IF done.ok THEN Some(done.total_cost) ELSE None]),
   returned |->
     IF done.ok
     THEN [ok |-> TRUE,
           value |-> [id |-> Len(mans) + 1,
                      items_count |-> Len(parsed),
                      total_retail |-> done.total_retail,
                      total_cost |-> done.total_cost]]
     ELSE [ok |-> FALSE]]

\* main::import_manifest
import_manifest(its, mans, aucs, table, parsed, auction_id) ==
  ImportOutcome(mans, parsed,
                ImportRows([items |-> its, total_retail |-> 0,
                            total_cost |-> 0, ok |-> TRUE],
                           load_vendors(table), Len(mans) + 1, parsed,
                           auction_id, aucs))

\* The loop of assign_items_to_auction over item_ids, inside the
\* transaction: an item that exists is listed in the auction; the UPDATE
\* fails the foreign key when the auction does not exist.
RECURSIVE AssignLoop(_, _, _, _)
AssignLoop(st, aucs, auction_id, item_ids) ==
  IF item_ids = << >> THEN st
  ELSE LET item_id == Head(item_ids)
       IN  IF item_id \notin DOMAIN st.items
           THEN AssignLoop([st EXCEPT !.count = @ + 1], aucs, auction_id,
                           Tail(item_ids))
           ELSE IF ~AuctionExists(aucs, auction_id)
           THEN [st EXCEPT !.ok = FALSE]
           ELSE AssignLoop([st EXCEPT
                              !.items[item_id].auction_id = Some(auction_id),
                              !.items[item_id].current_status = "Listed",
                              !.count = @ + 1],
                           aucs, auction_id, Tail(item_ids))

\* AuctionManager::assign_items_to_auction: the items and auctions tables
\* after the call, and what it returns. An error drops the transaction.
assign_items_to_auction(its, aucs, auction_id, item_ids) ==
  LET done == AssignLoop([items |-> its, count |-> 0, ok |-> TRUE],
                         aucs, auction_id, item_ids)
  IN  IF done.ok
      THEN [items |-> done.items,
            auctions |-> RecountLots(aucs, done.items, auction_id),
            returned |-> [ok |-> TRUE, value |-> done.count]]
      ELSE [items |-> its, auctions |-> aucs, returned |-> [ok |-> FALSE]]

\* auctions::unassign_item
unassign_item(its, aucs, item_id) ==
  LET auction_id == IF item_id \in DOMAIN its THEN its[item_id].auction_id
                    ELSE None
      reset == [i \in DOMAIN its |->
                  IF i = item_id
                  THEN [its[i] EXCEPT !.current_status = "InStock",
                                      !.auction_id = None]
                  ELSE its[i]]
  IN  [items |-> reset,
       auctions |-> IF auction_id # None
                    THEN RecountLots(aucs, reset, auction_id[1]) ELSE aucs,
       returned |-> [ok |-> TRUE]]

\* Mutant of update_item_status: the auction of the item is kept.
update_item_status_keeps_auction(its, item_id, status) ==
  IF item_id \in DOMAIN its /\ status \notin ItemStatuses
  THEN [items |-> its, returned |-> [ok |-> FALSE]]
  ELSE [items |-> [i \in DOMAIN its |->
                     IF i = item_id
                     THEN [its[i] EXCEPT !.current_status = status]
                     ELSE its[i]],
        returned |-> [ok |-> TRUE]]

\* main::update_item_status: the status is written, and the auction of the
\* item is cleared when the status is 'InStock'; a status outside the CHECK
\* of the table fails the statement.
update_item_status(its, item_id, status) ==
  IF item_id \in DOMAIN its /\ status \notin ItemStatuses
  THEN [items |-> its, returned |-> [ok |-> FALSE]]
  ELSE [items |-> [i \in DOMAIN its |->
                     IF i = item_id
                     THEN [its[i] EXCEPT
                             !.current_status = status,
                             !.auction_id = IF status = "InStock" THEN None
                                            ELSE @]
                     ELSE its[i]],
        returned |-> [ok |-> TRUE]]

\* main::save_setting
save_setting(table, key, value) == [table EXCEPT ![key] = value]

\* The text is a number as str::parse::<f64> reads it: digits with at most
\* one point.
IsFloatText(val) ==
  /\ \E i \in DOMAIN val : val[i] \in Digits
  /\ \A i \in DOMAIN val : val[i] \in Digits \cup {"."}
  /\ Cardinality({ i \in DOMAIN val : val[i] = "." }) <= 1

\* The default of the commission rate: 15 stands for 0.15.
DefaultCommissionRate == 15

\* Mutant of commission_rate: the rate of the settings is not read.
commission_rate_default(table) == DefaultCommissionRate

\* The commission rate read by reconcile_hibid_results, in hundredths:
\* val.parse::<f64>().unwrap_or(0.15)
commission_rate(table) ==
  LET val == table.default_commission_rate
  IN  IF IsFloatText(val)
      THEN parse_f64(val).mantissa * Pow10(2 - parse_f64(val).scale)
      ELSE DefaultCommissionRate

\* Mutant of buyback_bidder_id: the default "5046".
buyback_bidder_id_default(table) == <<"5", "0", "4", "6">>

\* The buyback bidder read by reconcile_hibid_results.
buyback_bidder_id(table) == table.ron_larsson_bidder_id

\* UNIQUE(auction_id, item_id) of the auction_results table
ResultUnique(results, auction_id, item_id) ==
  \A k \in DOMAIN results :
     ~(results[k].auction_id = auction_id /\ results[k].item_id = item_id)

\* Mutant of ListedLots: the status of the item is not looked at.
ListedLotsAnyStatus(its, auction_id, lot_number) ==
  { i \in DOMAIN its : /\ its[i].lot_number = lot_number
                       /\ its[i].auction_id = Some(auction_id) }

\* WHERE lot_number = ?2 AND auction_id = ?3 AND current_status = 'Listed'
ListedLots(its, auction_id, lot_number) ==
  { i \in DOMAIN its : /\ its[i].lot_number = lot_number
                       /\ its[i].auction_id = Some(auction_id)
                       /\ its[i].current_status = "Listed" }

\* SELECT id ... WHERE lot_number = ?1 AND auction_id = ?2: the rows the
\* query has to choose from.
LotsOfAuction(its, auction_id, lot_number) ==
  { i \in DOMAIN its : /\ its[i].lot_number = lot_number
                       /\ its[i].auction_id = Some(auction_id) }

\* Mutant of Commission: the buyer of a buyback pays commission too.
CommissionOfBuyback(is_buyback, high_bid, rate) == high_bid * rate

\* commission, in hundredths of a cent (high_bid in cents, rate in hundredths)
Commission(is_buyback, high_bid, rate) ==
  IF is_buyback THEN 0 ELSE high_bid * rate

\* Mutant of NetProfit: the commission is not deducted.
NetProfitBeforeCommission(is_buyback, high_bid, cost, commission) ==
  IF is_buyback THEN 0 ELSE (high_bid - cost) * Hundred

\* net_profit, in hundredths of a cent
NetProfit(is_buyback, high_bid, cost, commission) ==
  IF is_buyback THEN 0 ELSE (high_bid - cost) * Hundred - commission

\* The loop of reconcile_hibid_results over the parsed rows, inside the
\* transaction: the set of states it can end in. The SELECT of the item id
\* has no ORDER BY and no LIMIT: any row with the lot number and the auction
\* can be the one returned. The INSERT fails when the auction already has a
\* result for the item.
RECURSIVE ReconcileRows(_, _, _, _, _)
ReconcileRows(st, results, auction_id, bidder, rate) ==
  IF results = << >> THEN {st}
  ELSE
    LET row == Head(results)
        is_buyback == row.bidder_id = bidder
        status == IF is_buyback THEN "Buyback" ELSE "Sold"
        high_bid == row.high_bid
        updated == ListedLots(st.items, auction_id, row.lot_number)
        its == [i \in DOMAIN st.items |->
                  IF i \in updated
                  THEN [st.items[i] EXCEPT !.current_status = status]
                  ELSE st.items[i]]
    IN  IF updated = {}
        THEN ReconcileRows([st EXCEPT !.errors = Append(@, row.lot_number)],
                           Tail(results), auction_id, bidder, rate)
        ELSE UNION {
          LET cost == its[item_id].cost_price
              commission == Commission(is_buyback, high_bid, rate)
              net_profit == NetProfit(is_buyback, high_bid, cost, commission)
              inserted == [auction_id |-> auction_id,
                           item_id |-> item_id,
                           bidder_id |-> row.bidder_id,
                           high_bid |-> high_bid,
                           is_buyback |-> is_buyback,
                           commission_rate |-> rate,
                           commission_amount |-> commission,
                           net_profit |-> net_profit]
          IN  IF ~ResultUnique(st.auction_results, auction_id, item_id)
              THEN {[st EXCEPT !.ok = FALSE]}
              ELSE ReconcileRows(
                     [st EXCEPT
                        !.items = its,
                        !.auction_results = Append(@, inserted),
                        !.buyback_count = IF is_buyback THEN @ + 1 ELSE @,
                        !.sold_count = IF is_buyback THEN @ ELSE @ + 1,
                        !.total_revenue = IF is_buyback THEN @
                                          ELSE @ + high_bid,
                        !.total_profit = IF is_buyback THEN @
                                         ELSE @ + net_profit],
                     Tail(results), auction_id, bidder, rate)
          : item_id \in LotsOfAuction(its, auction_id, row.lot_number) }

\* Mutant of CompleteAuction: the status of the auction is left as it is.
CompleteAuctionNever(aucs, auction_id) == aucs

\* UPDATE auctions SET status = 'Completed' WHERE id = ?1
CompleteAuction(aucs, auction_id) ==
  [a \in DOMAIN aucs |->
     IF a = auction_id THEN [aucs[a] EXCEPT !.status = "Completed"]
     ELSE aucs[a]]

\* Mutant of reconcile_hibid_results: what the transaction wrote before the
\* error stays.
reconcile_hibid_results_no_rollback(its, aucs, ars, table, auction_id, results) ==
  { [items |-> done.items,
     auction_results |-> done.auction_results,
     auctions |-> IF done.ok THEN CompleteAuction(aucs, auction_id) ELSE aucs,
     returned |-> IF done.ok
                  THEN [ok |-> TRUE,
                        value |-> [sold_count |-> done.sold_count,
                                   buyback_count |-> done.buyback_count,
                                   total_revenue |-> done.total_revenue,
                                   total_profit |-> done.total_profit,
                                   errors |-> done.errors]]
                  ELSE [ok |-> FALSE]]
    : done \in ReconcileRows([items |-> its, auction_results |-> ars,
                              sold_count |-> 0, buyback_count |-> 0,
                              total_revenue |-> 0, total_profit |-> 0,
                              errors |-> << >>, ok |-> TRUE],
                             results, auction_id, buyback_bidder_id(table),
                             commission_rate(table)) }

\* ReconciliationManager::reconcile_hibid_results: the tables after the
\* call, and what it returns. An error drops the transaction, which rolls
\* back; the status of the auction is written after the commit.
reconcile_hibid_results(its, aucs, ars, table, auction_id, results) ==
  { IF done.ok
    THEN [items |-> done.items,
          auction_results |-> done.auction_results,
          auctions |-> CompleteAuction(aucs, auction_id),
          returned |-> [ok |-> TRUE,
                        value |-> [sold_count |-> done.sold_count,
                                   buyback_count |-> done.buyback_count,
                                   total_revenue |-> done.total_revenue,
                                   total_profit |-> done.total_profit,
                                   errors |-> done.errors]]]
    ELSE [items |-> its, auction_results |-> ars, auctions |-> aucs,
          returned |-> [ok |-> FALSE]]
    : done \in ReconcileRows([items |-> its, auction_results |-> ars,
                              sold_count |-> 0, buyback_count |-> 0,
                              total_revenue |-> 0, total_profit |-> 0,
                              errors |-> << >>, ok |-> TRUE],
                             results, auction_id, buyback_bidder_id(table),
                             commission_rate(table)) }

----------------------------------------------------------------------------
(* The commands on auctions, from the database of a fresh installation.    *)
(* call counts the commands invoked; result is the command last invoked    *)
(* and what it returned.                                                   *)

MaxCommands == 5

\* Auction ids a caller can pass: the auctions of the table and one more.
AuctionIds == 1..(Len(auctions) + 1)

\* auction_id of import_manifest: none, or an auction id.
OptionalAuctionIds == {None} \cup { Some(a) : a \in AuctionIds }

\* Item ids a caller can pass: the items of the table.
ItemIds == DOMAIN items

\* The row of RowPool with a lot number.
RowOfLot(lot_number) == CHOOSE row \in RowPool : row.lot_number = lot_number

\* Files of import_manifest: a manifest of one lot and one of two.
ManifestFiles == { <<RowOfLot("1")>>, <<RowOfLot("1"), RowOfLot("2")>> }

\* item_ids of assign_items: one item, or the first two.
ItemIdLists == { <<i>> : i \in ItemIds } \cup { <<1, 2>> }

\* Statuses passed to update_item_status; 'Lost' is not a status of the table.
StatusArguments == {"InStock", "Listed", "Scrap", "Lost"}

\* Parsed rows of a HiBid results file (high_bid after clean_price, in cents).
ResultRow(lot_number, bidder_id, high_bid) ==
  [lot_number |-> lot_number, bidder_id |-> bidder_id, high_bid |-> high_bid]

\* Files of reconcile_auction: one lot won by bidder 5046; two lots won by
\* other bidders; the same lot twice.
ResultFiles ==
  { << ResultRow("1", <<"5", "0", "4", "6">>, 1000) >>,
    << ResultRow("1", <<"7", "7">>, 2500), ResultRow("2", <<"1", "2">>, 39900) >>,
    << ResultRow("1", <<"7", "7">>, 2500), ResultRow("1", <<"5", "0", "4", "6">>, 1000) >> }

\* Settings saved by the user: another buyback bidder, another commission
\* rate, and a commission rate that is not a number.
SettingArguments ==
  { [key |-> "ron_larsson_bidder_id", value |-> <<"1", "2">>],
    [key |-> "default_commission_rate", value |-> <<"0", ".", "1">>],
    [key |-> "default_commission_rate", value |-> <<"n", "/", "a">>] }

InitAuctions ==
  /\ auctions = << >>
  /\ auction_results = << >>
  /\ settings = SeededSettings
  /\ dbVendors = SeededVendors
  /\ dbLock = "free"
  /\ manifests = << >>
  /\ items = << >>
  /\ rows = << >>
  /\ waiting = {}
  /\ vendors = << >>
  /\ call = 0
  /\ result = [command |-> "none", ok |-> TRUE]
  /\ title = << >>
  /\ entities = << >>

\* A command is invoked.
Invoked ==
  /\ call < MaxCommands
  /\ call' = call + 1

\* The create_auction command
CreateAuction ==
  /\ Invoked
  /\ auctions' = Append(auctions, create_auction)
  /\ result' = [command |-> "create_auction", ok |-> TRUE,
                value |-> Len(auctions) + 1]
  /\ UNCHANGED <<auction_results, settings, dbVendors, dbLock, manifests,
                 items, rows, waiting, vendors, nlpVars>>

\* The import_manifest command
Imported(done) ==
  /\ items' = done.items
  /\ manifests' = done.manifests
  /\ result' = [command |-> "import_manifest"] @@ done.returned

ImportManifest(parsed, auction_id) ==
  /\ Invoked
  /\ Imported(import_manifest(items, manifests, auctions, dbVendors, parsed,
                              auction_id))
  /\ UNCHANGED <<auctionVars, dbVendors, dbLock, rows, waiting, vendors,
                 nlpVars>>

\* The assign_items command
AssignItems(auction_id, item_ids) ==
  /\ Invoked
  /\ LET done == assign_items_to_auction(items, auctions, auction_id, item_ids)
     IN  /\ items' = done.items
         /\ auctions' = done.auctions
         /\ result' = [command |-> "assign_items"] @@ done.returned
  /\ UNCHANGED <<auction_results, settings, dbVendors, dbLock, manifests,
                 rows, waiting, vendors, nlpVars>>

\* The unassign_item command
UnassignItem(item_id) ==
  /\ Invoked
  /\ LET done == unassign_item(items, auctions, item_id)
     IN  /\ items' = done.items
         /\ auctions' = done.auctions
         /\ result' = [command |-> "unassign_item"] @@ done.returned
  /\ UNCHANGED <<auction_results, settings, dbVendors, dbLock, manifests,
                 rows, waiting, vendors, nlpVars>>

\* The update_item_status command
UpdateItemStatus(item_id, status) ==
  /\ Invoked
  /\ LET done == update_item_status(items, item_id, status)
     IN  /\ items' = done.items
         /\ result' = [command |-> "update_item_status"] @@ done.returned
  /\ UNCHANGED <<auctionVars, dbVendors, dbLock, manifests, rows, waiting,
                 vendors, nlpVars>>

\* The save_setting command
SaveSetting(key, value) ==
  /\ Invoked
  /\ settings' = save_setting(settings, key, value)
  /\ result' = [command |-> "save_setting", ok |-> TRUE]
  /\ UNCHANGED <<auctions, auction_results, importVars, vendors, nlpVars>>

\* The reconcile_auction command
ReconcileAuction(auction_id, results) ==
  /\ Invoked
  /\ \E done \in reconcile_hibid_results(items, auctions, auction_results,
                                         settings, auction_id, results) :
       /\ items' = done.items
       /\ auction_results' = done.auction_results
       /\ auctions' = done.auctions
       /\ result' = [command |-> "reconcile_auction"] @@ done.returned
  /\ UNCHANGED <<settings, dbVendors, dbLock, manifests, rows, waiting,
                 vendors, nlpVars>>

NextAuctions ==
  \/ CreateAuction
  \/ \E parsed \in ManifestFiles, auction_id \in OptionalAuctionIds :
       ImportManifest(parsed, auction_id)
  \/ \E a \in AuctionIds, item_ids \in ItemIdLists : AssignItems(a, item_ids)
  \/ \E i \in ItemIds : UnassignItem(i)
  \/ \E i \in ItemIds, status \in StatusArguments : UpdateItemStatus(i, status)
  \/ \E s \in SettingArguments : SaveSetting(s.key, s.value)
  \/ \E a \in AuctionIds, results \in ResultFiles : ReconcileAuction(a, results)

SpecAuctions == InitAuctions /\ [][NextAuctions]_vars

----------------------------------------------------------------------------
(* Claims about the reconciliation                                         *)

\* The step is a call of reconcile_auction with these arguments.
Reconciles(auction_id, results) ==
  /\ result'.command = "reconcile_auction"
  /\ ReconcileAuction(auction_id, results)

\* The rows of a results file that carry a lot number.
RowsOfLot(results, lot_number) ==
  { k \in DOMAIN results : results[k].lot_number = lot_number }

\* Before the step, the item is 'Listed' in the auction.
ListedIn(i, auction_id) ==
  /\ items[i].current_status = "Listed"
  /\ items[i].auction_id = Some(auction_id)

\* The status a row gives to the items of its lot.
StatusOfRow(row) ==
  IF row.bidder_id = settings.ron_larsson_bidder_id THEN "Buyback" ELSE "Sold"

\* Row k finds no item to change: no item of the auction with its lot number
\* is 'Listed' before the call, or an earlier row has taken the lot.
RowFindsNoItem(auction_id, results, k) ==
  \/ \A i \in DOMAIN items :
       ~(ListedIn(i, auction_id) /\ items[i].lot_number = results[k].lot_number)
  \/ \E j \in 1..(k - 1) : results[j].lot_number = results[k].lot_number

\* The lot numbers of the first n rows that find no item, in the order of
\* the file.
RECURSIVE LotsNotFound(_, _, _)
LotsNotFound(auction_id, results, n) ==
  IF n = 0 THEN << >>
  ELSE IF RowFindsNoItem(auction_id, results, n)
       THEN Append(LotsNotFound(auction_id, results, n - 1),
                   results[n].lot_number)
       ELSE LotsNotFound(auction_id, results, n - 1)

\* What C21 says of a call that returns Ok.
StatusesReconciled(auction_id, results) ==
  /\ DOMAIN items' = DOMAIN items
  /\ \A i \in DOMAIN items :
       IF ListedIn(i, auction_id)
          /\ RowsOfLot(results, items[i].lot_number) # {}
       THEN items'[i] =
              [items[i] EXCEPT !.current_status =
                 StatusOfRow(results[Minimum(RowsOfLot(results,
                                                       items[i].lot_number))])]
       ELSE items'[i] = items[i]
  /\ result'.value.errors = LotsNotFound(auction_id, results, Len(results))

\* C21: reconcile_hibid_results changes the status only of the items that
\* are 'Listed', belong to the given auction and carry the lot number of a
\* result row; such an item becomes 'Buyback' when the bidder of the (first)
\* row of its lot is the configured buyback bidder, and 'Sold' otherwise; a
\* row that finds no such item adds an error entry and changes no item; the
\* items in another status or another auction are left unchanged.
C21_OnlyListedLotsChange ==
  [][\A a \in AuctionIds, results \in ResultFiles :
       Reconciles(a, results) =>
         IF result'.ok THEN StatusesReconciled(a, results)
         ELSE items' = items]_vars

\* C21 witness: a call has sold the item of lot 1 listed in auction 1, has
\* left an item of lot 1 listed in auction 2 as it was, and has added an
\* error entry for a second row of lot 1.
C21_Witness ==
  /\ result.command = "reconcile_auction"
  /\ result.ok
  /\ result.value.errors = << "1" >>
  /\ \E i, j \in DOMAIN items :
       /\ items[i].lot_number = "1"
       /\ items[i].auction_id = Some(1)
       /\ items[i].current_status = "Sold"
       /\ items[j].lot_number = "1"
       /\ items[j].auction_id = Some(2)
       /\ items[j].current_status = "Listed"
  /\ auctions[1].status = "Completed"
  /\ auctions[2].status = "Draft"

\* The auction_results rows a step has inserted.
InsertedResults ==
  { auction_results'[k] :
      k \in (Len(auction_results) + 1)..Len(auction_results') }

\* The commission rate of the settings, in hundredths: the value saved when
\* it is a number, 0.15 otherwise.
ConfiguredRate ==
  CASE settings.default_commission_rate = <<"0", ".", "1", "5">> -> 15
    [] settings.default_commission_rate = <<"0", ".", "1">> -> 10
    [] OTHER -> 15

\* The sum of a field over a finite set of records.
RECURSIVE SumOf(_, _)
SumOf(S, field) ==
  IF S = {} THEN 0
  ELSE LET r == CHOOSE r \in S : TRUE
       IN  r[field] + SumOf(S \ {r}, field)

\* What C22 says of a call that returns Ok. Amounts of commission and profit
\* are in hundredths of a cent, bids and costs in cents.
AmountsReconciled ==
  /\ \A r \in InsertedResults :
       IF r.is_buyback
       THEN r.commission_amount = 0 /\ r.net_profit = 0
       ELSE /\ r.commission_amount = r.high_bid * ConfiguredRate
            /\ r.net_profit =
                 r.high_bid * Hundred - items[r.item_id].cost_price * Hundred
                   - r.commission_amount
  /\ result'.value.total_revenue =
       SumOf({ r \in InsertedResults : ~r.is_buyback }, "high_bid")
  /\ result'.value.total_profit =
       SumOf({ r \in InsertedResults : ~r.is_buyback }, "net_profit")

\* C22: of every auction result inserted by reconcile_hibid_results, a
\* buyback row has commission_amount 0 and net_profit 0, and a sold row has
\* commission_amount = high_bid * commission_rate (the rate of the settings,
\* 0.15 when it is not a number) and net_profit = high_bid - cost_price of
\* its item - commission_amount; total_revenue and total_profit of the
\* summary are the sums of high_bid and net_profit over the sold rows.
C22_CommissionAndProfit ==
  [][(result'.command = "reconcile_auction" /\ result'.ok
        /\ \E a \in AuctionIds, results \in ResultFiles :
             ReconcileAuction(a, results))
       => AmountsReconciled]_vars

\* C22 witness: with the commission rate set to 0.1 and the buyback bidder
\* to 12, a call has sold lot 1 for 25.00 (commission 2.50, the cost of the
\* item is 447.86) and has bought back lot 2.
C22_Witness ==
  /\ result.command = "reconcile_auction"
  /\ result.ok
  /\ result.value.sold_count = 1
  /\ result.value.buyback_count = 1
  /\ result.value.total_revenue = 2500
  /\ result.value.total_profit = -4253600
  /\ \E k \in DOMAIN auction_results :
       /\ ~auction_results[k].is_buyback
       /\ auction_results[k].commission_rate = 10
       /\ auction_results[k].commission_amount = 25000
       /\ auction_results[k].net_profit = -4253600
       /\ items[auction_results[k].item_id].cost_price = 44786
  /\ \E k \in DOMAIN auction_results :
       /\ auction_results[k].is_buyback
       /\ auction_results[k].high_bid = 39900
       /\ auction_results[k].commission_amount = 0
       /\ auction_results[k].net_profit = 0

\* C23: when reconcile_hibid_results returns an error while it processes the
\* result rows, the database is as before the call: no item is changed, no
\* auction_results row is inserted, and the status of no auction is set.
C23_ErrorLeavesDatabase ==
  [][(result'.command = "reconcile_auction" /\ ~result'.ok)
       => /\ items' = items
          /\ auction_results' = auction_results
          /\ auctions' = auctions
          /\ manifests' = manifests
          /\ settings' = settings]_vars

\* C23 witness: a call has failed on the INSERT of a second result for an
\* item that an earlier call had settled and that was listed again; the item
\* is 'Listed' as before the call, although the UPDATE of the failed call had
\* changed its status.
C23_Witness ==
  /\ result.command = "reconcile_auction"
  /\ ~result.ok
  /\ \E i \in DOMAIN items :
       /\ items[i].current_status = "Listed"
       /\ \E k \in DOMAIN auction_results :
            /\ auction_results[k].item_id = i
            /\ items[i].auction_id = Some(auction_results[k].auction_id)
  /\ Len(auction_results) = 1

\* The items whose status a step has changed.
ItemsChanged ==
  { i \in DOMAIN items : items'[i].current_status # items[i].current_status }

\* C24: for every successful reconcile_hibid_results call, sold_count +
\* buyback_count + the number of error entries is the number of parsed rows,
\* and sold_count + buyback_count is both the number of auction_results rows
\* the call inserted and the number of items whose status it changed.
C24_CountsAgree ==
  [][\A a \in AuctionIds, results \in ResultFiles :
       (Reconciles(a, results) /\ result'.ok) =>
         LET settled == result'.value.sold_count + result'.value.buyback_count
         IN  /\ settled + Len(result'.value.errors) = Len(results)
             /\ settled = Len(auction_results') - Len(auction_results)
             /\ settled = Cardinality(ItemsChanged)]_vars

----------------------------------------------------------------------------
(* Claims about the commands on auctions                                   *)

\* C25: after any sequence of create_auction, import_manifest, assign_items,
\* unassign_item, update_item_status and reconcile_auction, the total_lots
\* of every auction is the number of items whose auction_id is the auction.
C25_TotalLotsCountsItems ==
  \A a \in DOMAIN auctions : auctions[a].total_lots = CountLots(items, a)

\* C26: after any such sequence, every 'InStock' item has no auction_id.
C26_InStockHasNoAuction ==
  \A i \in DOMAIN items :
     items[i].current_status = "InStock" => items[i].auction_id = None

\* C26 witness: of two items imported into auction 1, update_item_status has
\* put one back in stock, which clears its auction; the other is listed in
\* the auction.
C26_Witness ==
  /\ result.command = "update_item_status"
  /\ result.ok
  /\ \E i, j \in DOMAIN items :
       /\ items[i].manifest_id = items[j].manifest_id
       /\ items[i].current_status = "InStock"
       /\ items[i].auction_id = None
       /\ items[j].current_status = "Listed"
       /\ items[j].auction_id = Some(1)

\* The items of a table that reference a manifest.
ItemsOfManifest(its, manifest_id) ==
  { i \in DOMAIN its : its[i].manifest_id = manifest_id }

\* C30: after every import_manifest call, successful or failed part-way, the
\* items_count of each manifest is the number of items that reference it;
\* a successful call returns items_count = the number of parsed rows and
\* total_cost = the sum of the cost prices of the items it inserted.
C30_ItemsCountMatchesItems ==
  [][\A parsed \in ManifestFiles, auction_id \in OptionalAuctionIds :
       (result'.command = "import_manifest"
          /\ ImportManifest(parsed, auction_id)) =>
         /\ \A m \in DOMAIN manifests' :
              manifests'[m].items_count =
                Cardinality(ItemsOfManifest(items', m))
         /\ result'.ok =>
              /\ result'.value.items_count = Len(parsed)
              /\ result'.value.total_cost =
                   SumOver(items', result'.value.id, "cost_price")]_vars

----------------------------------------------------------------------------
(* Bounds of the prices returned by calculate_cost.                        *)

\* 0 < cost_coefficient < 1 and min_price_margin >= 0, in hundredths.
DiscountVendor(v) ==
  /\ 0 < v.cost_coefficient /\ v.cost_coefficient < Hundred
  /\ v.min_price_margin >= 0

\* C27: for every vendor with 0 < cost_coefficient < 1 and
\* min_price_margin >= 0 and every retail_price that is a non-negative whole
\* number of cents, calculate_cost returns 0 <= cost_price <= retail_price and
\* min_price >= cost_price.
C27_PricesBounded ==
  (Called /\ Resolved /\ DiscountVendor(ResolvedVendor)
     /\ call.retail_price >= 0) =>
    /\ 0 <= Returned.cost
    /\ Returned.cost <= call.retail_price
    /\ Returned.min_price >= Returned.cost

\* Witness of C27: one cent at 0.99 rounds up to the whole retail price, and
\* the zero margin leaves min_price equal to the cost.
C27_Witness ==
  /\ Called /\ Resolved /\ DiscountVendor(ResolvedVendor)
  /\ call.retail_price = 1
  /\ ResolvedVendor.cost_coefficient = 99 /\ ResolvedVendor.min_price_margin = 0
  /\ Returned.cost = 1 /\ Returned.min_price = 1

----------------------------------------------------------------------------
(* Harness of the brand list: extract is applied to a title that is a      *)
(* brand of the list, as written in the list or in capitals.               *)

BrandTitles ==
  Range(BRANDS) \cup { to_uppercase(BRANDS[i]) : i \in DOMAIN BRANDS }

InitBrands ==
  /\ auctions = << >>
  /\ auction_results = << >>
  /\ settings = SeededSettings
  /\ title \in BrandTitles
  /\ entities = << >>
  /\ vendors = << >>
  /\ call = [retail_price |-> 0, source |-> << >>]
  /\ result = << >>
  /\ dbVendors = SeededVendors
  /\ dbLock = "free"
  /\ manifests = << >>
  /\ items = << >>
  /\ rows = << >>
  /\ waiting = {}

SpecBrands == InitBrands /\ [][NextNlp]_vars

----------------------------------------------------------------------------
(* Properties of the brand list (checked under SpecBrands)                 *)

\* The brands that may be reported for the title b: b itself, or a brand
\* earlier in the list that is a whole word of b.
DetectableAs(i) ==
  { BRANDS[i] } \cup
  { BRANDS[j] : j \in { k \in 1..(i - 1) :
                          OccursAsWord(to_lowercase(BRANDS[k]),
                                       to_lowercase(BRANDS[i])) } }

\* C28: every brand of the static brand list is detectable: for each brand b
\* of the list, extract applied to the title consisting of b alone returns a
\* brand (b itself, or a brand earlier in the list that is also a whole word
\* of b).
C28_EveryBrandDetectable ==
  Extracted =>
    \A i \in DOMAIN BRANDS :
      title = BRANDS[i] =>
        /\ Entities.brand # None
        /\ Entities.brand[1] \in DetectableAs(i)

\* The same for the brands written with letters, digits and spaces only.
PlainBrand(b) == \A k \in DOMAIN b : KeepChar(b[k])
C28_PlainBrandsDetectable ==
  Extracted =>
    \A i \in DOMAIN BRANDS :
      (title = BRANDS[i] /\ PlainBrand(BRANDS[i])) =>
        /\ Entities.brand # None
        /\ Entities.brand[1] \in DetectableAs(i)

\* A brand written with a hyphen or an ampersand is never reported.
C28_PunctuatedBrandsLost ==
  Extracted =>
    \A i \in DOMAIN BRANDS :
      (title \in {BRANDS[i], to_uppercase(BRANDS[i])} /\ ~PlainBrand(BRANDS[i])) =>
        Entities.brand = None

----------------------------------------------------------------------------
(* The generic rule on titles with several generic-pattern tokens          *)
(* (checked under SpecModel)                                               *)

\* A word of the form [A-Z]{2,}\d{3,}[A-Z0-9]*
GenericToken(w) ==
  \E a \in 2..(Len(w) - 3) :
    /\ \A i \in 1..a : w[i] \in ClassUpper
    /\ \A i \in (a + 1)..(a + 3) : w[i] \in ClassDigit
    /\ \A i \in (a + 4)..Len(w) : w[i] \in ClassUpperDigit

NewOrBoxToken(w) == starts_with(w, <<"N", "E", "W">>) \/ starts_with(w, <<"B", "O", "X">>)

\* The generic-pattern tokens of the upper-cased title that the filter accepts.
AcceptableTokens == { w \in WordsOf(Upper) : GenericToken(w) /\ ~NewOrBoxToken(w) }

\* C29: when no Samsung, LG or appliance rule hits and the title contains a
\* generic-pattern token that starts with neither NEW nor BOX, find_model
\* returns a generic-rule model, even if a generic-pattern token starting
\* with NEW or BOX stands earlier in the title.
C29_RejectedTokenDoesNotSuppress ==
  (Extracted /\ (\A k \in 1..3 : ~RuleHits(k)) /\ AcceptableTokens # {}) =>
    /\ Entities.model # None
    /\ Entities.model[1] \in AcceptableTokens

\* The same when the leftmost generic-pattern token is an acceptable one.
C29_LeftmostAcceptableReturned ==
  (Extracted /\ (\A k \in 1..3 : ~RuleHits(k)) /\ AcceptableTokens # {}
     /\ RuleHits(4)) =>
    /\ Entities.model # None
    /\ Entities.model[1] \in AcceptableTokens

====
